---- MODULE Spec2Model ----
(***************************************************************************)
(* State-machine model of the marketing analytics pipeline:                *)
(*   pipeline/pipeline_orchestrator.py  DataPipelineOrchestrator (storage  *)
(*       handles, the pipeline_runs / data_quality_checks ledger) and      *)
(*       DataQualityChecker,                                               *)
(*   pipeline/layer1_staging.py, layer2_warehouse.py, layer3_business.py   *)
(*       the layer executors and their steps,                              *)
(*   pipeline/master_pipeline.py        MasterPipelineRunner.              *)
(* A table is the set of its rows, a row carries its key columns and the   *)
(* columns later steps select on, and a transformation computes the rows   *)
(* its statement writes (Transform).  Whether a transformation raises, and *)
(* whether a check predicate is true, false or raises, are inputs drawn    *)
(* nondeterministically.                                                   *)
(* Spec is the runner; LedgerSpec applies log_pipeline_run to arbitrary    *)
(* calls; RebuildSpec reruns the layers on the stores of earlier runs;     *)
(* CheckerSpec calls the methods of DataQualityChecker on tables whose     *)
(* cells are modelled; AnalysisSpec builds the retention and segmentation  *)
(* tables from warehouse contents; CallsSpec makes whole calls of the      *)
(* entry points one after another on one runner and one orchestrator.      *)
(***************************************************************************)
EXTENDS Integers, Sequences, FiniteSets, TLC

VARIABLES
    pc,                  \* position of the control flow of MasterPipelineRunner
    skip_layers,         \* argument of run_full_pipeline
    layer,               \* index in LayerOrder of the layer block being executed
    step,                \* index of the step of the running layer executor
    phase,               \* index in the step's protocol of the next statement
    run_id,              \* local run_id of the running step function
    exc,                 \* text of the exception that is propagating ("" if none)
    orchs,               \* every DataPipelineOrchestrator constructed so far
    self_orchestrator,   \* runner.orchestrator (0 is None), an index in orchs
    layer_orchestrator,  \* orchestrator the running layer executor works on
    results,             \* runner.results
    ret,                 \* value returned by run_full_pipeline
    pipeline_runs,       \* metadata.db table pipeline_runs, in insertion order
    data_quality_checks, \* metadata.db table data_quality_checks
    clock,               \* datetime.now(), microseconds
    report,              \* value returned by the last get_pipeline_report
    trace,               \* events of the run, in order
    dirty,               \* steps of the run whose checks did not all pass
    db,                  \* the tables of staging.db, warehouse.db, business.db
    csv,                 \* the rows of the CSV file at csv_file_path
    exit_status          \* value main() ends the process with ("none": not yet)

vars == <<pc, skip_layers, layer, step, phase, run_id, exc, orchs,
          self_orchestrator, layer_orchestrator, results, ret, pipeline_runs,
          data_quality_checks, clock, report, trace, dirty, db, csv,
          exit_status>>

----------------------------------------------------------------------------
(* Bounds of the model *)

\* at most this many steps of one run draw check outcomes other than all PASSED
MaxDirtySteps == 2

----------------------------------------------------------------------------
(* Program constants *)

\* LIMIT of get_pipeline_status
StatusLimit == 20

LayerOrder == <<"staging", "warehouse", "business">>

LayerNames == {"staging", "warehouse", "business"}

DbNames == {"staging", "warehouse", "business", "metadata"}

\* the layer column written by the steps of a layer
LayerTag(l) ==
    CASE l = "staging" -> "STAGING"
      [] l = "warehouse" -> "WAREHOUSE"
      [] l = "business" -> "BUSINESS"

\* key of runner.results written by the block of a layer
ResultKey(l) ==
    CASE l = "staging" -> "layer1"
      [] l = "warehouse" -> "layer2"
      [] l = "business" -> "layer3"

ResultKeys == {"layer1", "layer2", "layer3"}

Chk(t, n) == [type |-> t, name |-> n]

\* A step: its target table, the checks its _run_*_quality_checks method
\* evaluates, in order, and the order of the statements that follow the
\* transformation in the step function (its protocol).
StepDef(t, c, p) == [table |-> t, checks |-> c, protocol |-> p]

StagingSteps ==
    << StepDef("stg_sales_raw",
               << Chk("ROW_COUNT", "min_rows_check"),
                  Chk("NULL_CHECK", "customer_id_null_check"),
                  Chk("NULL_CHECK", "order_id_null_check"),
                  Chk("NULL_CHECK", "sales_null_check"),
                  Chk("UNIQUENESS", "customer_id_unique_check") >>,
               <<"SUCCESS", "CHECKS">>),
       StepDef("stg_sales_cleaned",
               << Chk("DATA_VALIDITY", "valid_records_check"),
                  Chk("DATE_RANGE", "date_parsed_range_check") >>,
               <<"SUCCESS", "CHECKS", "COMMIT">>) >>

WarehouseSteps ==
    << StepDef("dim_date",
               << Chk("COMPLETENESS", "no_date_gaps_check"),
                  Chk("NULL_CHECK", "is_weekend_null_check") >>,
               <<"SUCCESS", "CHECKS", "COMMIT">>),
       StepDef("dim_customer",
               << Chk("NULL_CHECK", "customer_id_null_check"),
                  Chk("NULL_CHECK", "first_order_date_null_check"),
                  Chk("NULL_CHECK", "customer_segment_null_check") >>,
               <<"SUCCESS", "CHECKS", "COMMIT">>),
       StepDef("dim_order",
               << Chk("NULL_CHECK", "order_id_null_check"),
                  Chk("BUSINESS_RULE", "first_order_sequence_check") >>,
               <<"SUCCESS", "CHECKS", "COMMIT">>),
       StepDef("fact_sales",
               << Chk("BUSINESS_RULE", "positive_sales_check"),
                  Chk("REFERENTIAL_INTEGRITY", "customer_fk_check") >>,
               <<"SUCCESS", "CHECKS", "COMMIT">>) >>

BusinessSteps ==
    << StepDef("monthly_metrics",
               << Chk("BUSINESS_RULE", "positive_sales_check") >>,
               <<"SUCCESS", "CHECKS", "COMMIT">>),
       StepDef("cohort_analysis",
               << Chk("BUSINESS_RULE", "valid_retention_rate_check") >>,
               <<"SUCCESS", "CHECKS", "COMMIT">>),
       StepDef("cumulative_retention_analysis",
               << Chk("BUSINESS_RULE", "retention_trend_logic_check") >>,
               <<"COMMIT", "CHECKS", "SUCCESS">>),
       StepDef("customer_ltv_analysis",
               << Chk("BUSINESS_RULE", "valid_ltv_score_check") >>,
               <<"SUCCESS", "CHECKS", "COMMIT">>),
       StepDef("customer_segmentation", << >>, <<"COMMIT", "SUCCESS">>),
       StepDef("seasonal_trends", << >>, <<"COMMIT", "SUCCESS">>),
       StepDef("customer_lifecycle_snapshot",
               << Chk("AGGREGATE", "share_of_base_sums_to_1"),
                  Chk("BUSINESS_RULE", "non_negative_counts") >>,
               <<"CHECKS", "COMMIT", "SUCCESS">>),
       StepDef("campaign_targets",
               << Chk("NULL_CHECK", "recommended_action_null_check") >>,
               <<"SUCCESS", "CHECKS", "COMMIT">>),
       StepDef("business_insights", << >>, <<"SUCCESS", "COMMIT">>) >>

\* the step functions run_<layer>_pipeline calls, in call order
Steps(l) ==
    CASE l = "staging" -> StagingSteps
      [] l = "warehouse" -> WarehouseSteps
      [] l = "business" -> BusinessSteps

\* the store a layer attaches in its executor's constructor: <<connection, alias>>
Attachment(l) ==
    CASE l = "warehouse" -> <<"warehouse", "staging">>
      [] l = "business" -> <<"business", "warehouse">>

\* texts of the exceptions a transformation raises
StepErrors == {"no such table: staging.stg_sales_cleaned", "database is locked"}

\* text of the exception a check predicate raises
CheckErrors == {"no such column"}

\* text of the exception get_warehouse_summary raises on an empty fact_sales
SummaryError == "type NoneType doesn't define __round__ method"

AttachError(alias) == "database " \o alias \o " is already in use"

ClosedError == "Cannot operate on a closed database."

----------------------------------------------------------------------------
(* DataPipelineOrchestrator *)

\* a constructed orchestrator: four open handles, nothing attached
NewOrchestrator ==
    [databases |-> [d \in DbNames |-> "open"],
     attached |-> [d \in DbNames |-> {}]]

\* close_connections: every handle of the instance is closed
close_connections(o) ==
    [o EXCEPT !.databases = [d \in DbNames |-> "closed"]]

NoRunId == [layer |-> "", table_name |-> "", ts |-> 0]

\* the run_id log_pipeline_run computes from its arguments and the time
MakeRunId(l, t, now) == [layer |-> l, table_name |-> t, ts |-> now]

\* Faulty variant of log_pipeline_run: a terminal call whose run_id matches no
\* row inserts one (an upsert).
log_pipeline_run_upsert(runs, l, t, status, row_count, error_message, now) ==
    LET rid == MakeRunId(l, t, now) IN
    IF status = "STARTED" \/ \A i \in DOMAIN runs : runs[i].run_id # rid
    THEN Append(runs, [run_id |-> rid, layer |-> l, table_name |-> t,
                       status |-> status, start_time |-> now,
                       row_count |-> row_count, error_message |-> error_message])
    ELSE [i \in DOMAIN runs |->
            IF runs[i].run_id = rid
            THEN [runs[i] EXCEPT !.status = status, !.row_count = row_count,
                                 !.error_message = error_message]
            ELSE runs[i]]

\* log_pipeline_run: the table pipeline_runs after the call made at time now
\* (the call returns MakeRunId(l, t, now))
log_pipeline_run(runs, l, t, status, row_count, error_message, now) ==
    LET rid == MakeRunId(l, t, now) IN
    IF status = "STARTED"
    THEN Append(runs, [run_id |-> rid, layer |-> l, table_name |-> t,
                       status |-> status, start_time |-> now,
                       row_count |-> "NULL", error_message |-> "NULL"])
    ELSE [i \in DOMAIN runs |->
            IF runs[i].run_id = rid
            THEN [runs[i] EXCEPT !.status = status, !.row_count = row_count,
                                 !.error_message = error_message]
            ELSE runs[i]]

\* log_data_quality_check: one row is inserted
log_data_quality_check(checks, rid, t, c, actual, status, details, now) ==
    Append(checks, [check_id |-> <<rid, c.name, now>>, run_id |-> rid,
                    table_name |-> t, check_type |-> c.type,
                    check_name |-> c.name, actual_value |-> actual,
                    status |-> status, error_details |-> details])

\* Faulty variant of RunCheck: the except block records nothing.
RunCheckSilent(checks, rid, t, c, outcome, now) ==
    IF outcome \in {"PASSED", "FAILED"}
    THEN log_data_quality_check(checks, rid, t, c, "measured", outcome, "NULL", now)
    ELSE checks

\* One check (a DataQualityChecker method or an inline try/except block):
\* outcome is what evaluating the predicate gave: "PASSED", "FAILED", or the
\* text of the exception it raised.
RunCheck(checks, rid, t, c, outcome, now) ==
    IF outcome \in {"PASSED", "FAILED"}
    THEN log_data_quality_check(checks, rid, t, c, "measured", outcome, "NULL", now)
    ELSE log_data_quality_check(checks, rid, t, c, "ERROR", "FAILED", outcome, now)

\* a _run_*_quality_checks method: the checks cs in order, check i with
\* outcome q[i], the first one at time now
RECURSIVE RunChecks(_, _, _, _, _, _)
RunChecks(checks, rid, t, cs, q, now) ==
    IF cs = << >> THEN checks
    ELSE RunChecks(RunCheck(checks, rid, t, Head(cs), Head(q), now),
                   rid, t, Tail(cs), Tail(q), now + 1)

----------------------------------------------------------------------------
(* The stores: staging.db, warehouse.db, business.db                       *)
(* A table is the set of its rows; a row keeps its key columns and the      *)
(* columns later steps select on. Dates are day numbers, and the dates of   *)
(* the model lie in different calendar months.                              *)

RawRow(d, c, o, s) ==
    [date_raw |-> d, customer_id |-> c, order_id |-> o, sales |-> s]

\* the rows a CSV file of the model is made of
RawRows ==
    {RawRow(10, 1, 1, 5), RawRow(20, 1, 2, 5), RawRow(100, 2, 3, 5),
     RawRow(100, 1, 4, 0)}

CsvFiles == SUBSET RawRows

\* the file an earlier run loaded
PriorFile == {RawRow(10, 1, 1, 5), RawRow(20, 1, 2, 5)}

\* the file run_full_pipeline is given
RunFile == {RawRow(100, 2, 3, 5), RawRow(100, 1, 4, 0)}

\* julianday('now')
Today == 120

\* cohort_sizes.cohort_size >= 10 of build_cumulative_retention_analysis
MinCohortSize == 10

TableNames ==
    {"stg_sales_raw", "stg_sales_cleaned", "dim_date", "dim_customer",
     "dim_order", "fact_sales", "monthly_metrics", "cohort_analysis",
     "cumulative_retention_analysis", "customer_ltv_analysis",
     "customer_segmentation", "seasonal_trends", "campaign_targets",
     "customer_lifecycle_snapshot", "business_insights"}

\* the stores after the schemas are created: every table empty
EmptyDb == [t \in TableNames |-> {}]

SetMin(S) == CHOOSE x \in S : \A y \in S : x <= y

SetMax(S) == CHOOSE x \in S : \A y \in S : x >= y

\* INSERT OR REPLACE INTO a table whose primary key columns are key: a new row
\* replaces the row of its key, every other row stays
InsertOrReplace(old, new, key) ==
    {r \in old : \A n \in new : \E k \in key : n[k] # r[k]} \cup new

\* INSERT INTO a table without a primary key: every new row is added, also
\* when the table holds rows with the same values (copy tells them apart)
InsertRows(old, new) ==
    old \cup {[n EXCEPT !.copy = 1 + Cardinality({o \in old :
                                      [o EXCEPT !.copy = 1] = n})]
              : n \in new}

\* the SELECT of clean_and_validate_data on one raw row (the raw rows of the
\* model have a date, a customer_id and an order_id: the flag is decided by
\* sales)
CleanRow(r) ==
    [date_parsed |-> r.date_raw, customer_id |-> r.customer_id,
     order_id |-> r.order_id, sales_amount |-> r.sales,
     data_quality_flag |-> IF r.sales <= 0 THEN "INVALID_SALES" ELSE "VALID",
     copy |-> 1]

\* Faulty variant of CleanedTable: the DELETE is missing, the rows are appended.
CleanedTableAppended(d) ==
    InsertRows(d["stg_sales_cleaned"], {CleanRow(r) : r \in d["stg_sales_raw"]})

\* clean_and_validate_data: DELETE FROM stg_sales_cleaned, then INSERT ..
\* SELECT .. FROM stg_sales_raw
CleanedTable(d) ==
    InsertRows({}, {CleanRow(r) : r \in d["stg_sales_raw"]})

\* staging.stg_sales_cleaned WHERE data_quality_flag = 'VALID'
ValidRows(d) == {r \in d["stg_sales_cleaned"] : r.data_quality_flag = "VALID"}

DateKey == {"date_id"}

CustomerKey == {"customer_id"}

OrderKey == {"order_id"}

FactKey == {"customer_id", "order_id", "date_id"}

\* the SELECT of build_date_dimension
DateRows(d) ==
    {[date_id |-> r.date_parsed, full_date |-> r.date_parsed] : r \in ValidRows(d)}

\* the SELECT of build_customer_dimension: one row per customer_id
CustomerRows(d) ==
    LET of(c) == {r \in ValidRows(d) : r.customer_id = c}
        first(c) == SetMin({r.date_parsed : r \in of(c)})
        last(c) == SetMax({r.date_parsed : r \in of(c)})
    IN {[customer_id |-> c,
         first_order_date |-> first(c),
         last_order_date |-> last(c),
         total_orders |-> Cardinality({r.order_id : r \in of(c)}),
         days_since_first_order |-> Today - first(c),
         days_since_last_order |-> Today - last(c)]
        : c \in {r.customer_id : r \in ValidRows(d)}}

\* the SELECT of build_order_dimension
OrderRows(d) ==
    {[order_id |-> r.order_id, customer_id |-> r.customer_id,
      date_id |-> r.date_parsed] : r \in ValidRows(d)}

\* the SELECT of build_sales_fact
FactRows(d) ==
    {[customer_id |-> r.customer_id, order_id |-> r.order_id,
      date_id |-> r.date_parsed] : r \in ValidRows(d)}

\* warehouse.fact_sales f JOIN warehouse.dim_date d ON f.date_id = d.date_id
DatedFacts(d) ==
    {f \in d["fact_sales"] : \E x \in d["dim_date"] : x.date_id = f.date_id}

\* the SELECT of build_monthly_metrics
MonthlyRows(d) ==
    {[period_month |-> m,
      total_orders |-> Cardinality({f.order_id : f \in {g \in DatedFacts(d) : g.date_id = m}})]
     : m \in {f.date_id : f \in DatedFacts(d)}}

\* the SELECT of build_cohort_analysis
CohortRows(d) ==
    {[cohort_month |-> c.first_order_date, activity_month |-> f.date_id]
     : <<f, c>> \in {p \in DatedFacts(d) \X d["dim_customer"] :
                        /\ p[1].customer_id = p[2].customer_id
                        /\ p[1].date_id >= p[2].first_order_date}}

\* the SELECTs of build_cumulative_retention_analysis, windows 3, 12, 18
RetentionRows(d) ==
    LET size(m) == Cardinality({c \in d["dim_customer"] : c.first_order_date = m})
    IN {[cohort_month |-> r.cohort_month, retention_window_months |-> w]
        : <<r, w>> \in {p \in CohortRows(d) \X {3, 12, 18} :
                           size(p[1].cohort_month) >= MinCohortSize}}

\* the SELECT of build_customer_ltv_analysis: one row per dim_customer row
LtvRows(d) ==
    {[customer_id |-> c.customer_id, total_orders |-> c.total_orders]
     : c \in d["dim_customer"]}

\* the SELECT of build_customer_segmentation: one row per dim_customer row
SegmentationRows(d) ==
    {[customer_id |-> c.customer_id] : c \in d["dim_customer"]}

\* the SELECT of build_seasonal_trends, from monthly_metrics
SeasonalRows(d) ==
    {[period_type |-> "monthly", period_value |-> m.period_month]
     : m \in d["monthly_metrics"]}

\* campaign_type of build_campaign_targets ("" is NULL)
CampaignType(days) ==
    IF days < 14 THEN ""
    ELSE IF days <= 30 THEN "Early Engagement"
    ELSE IF days <= 60 THEN "Re-activation"
    ELSE IF days <= 90 THEN "Win-back"
    ELSE IF days <= 180 THEN "Final Push"
    ELSE "Long-term Win-back"

\* the SELECT of build_campaign_targets: one-time buyers with a campaign
CampaignRows(d) ==
    {[customer_id |-> c.customer_id,
      campaign_type |-> CampaignType(c.days_since_last_order)]
     : c \in {x \in d["dim_customer"] :
                 /\ x.total_orders = 1
                 /\ \E l \in d["customer_ltv_analysis"] : l.customer_id = x.customer_id
                 /\ CampaignType(x.days_since_last_order) # ""}}

\* lifecycle_stage of build_customer_lifecycle_snapshot
LifecycleStage(c) ==
    IF c.total_orders = 1 /\ c.days_since_first_order <= 30 THEN "New"
    ELSE IF c.days_since_last_order <= 30 THEN "Active"
    ELSE IF c.days_since_last_order <= 90 THEN "At Risk"
    ELSE "Inactive"

\* SELECT MAX(full_date) FROM warehouse.dim_date gives None
NoSnapshotDate(d) == d["dim_date"] = {}

\* SELECT MAX(full_date) FROM warehouse.dim_date, when it is not None
SnapshotDate(d) == SetMax({x.full_date : x \in d["dim_date"]})

\* the SELECT of build_customer_lifecycle_snapshot for snapshot_date sd
LifecycleRows(d, sd) ==
    {[snapshot_date |-> sd, lifecycle_stage |-> s,
      customers |-> Cardinality({c \in d["dim_customer"] : LifecycleStage(c) = s})]
     : s \in {LifecycleStage(c) : c \in d["dim_customer"]}}

\* Faulty variant of SnapshotTable: the whole table is deleted before the insert.
SnapshotTableRebuilt(d) == LifecycleRows(d, SnapshotDate(d))

\* build_customer_lifecycle_snapshot: DELETE .. WHERE snapshot_date = ?, then
\* INSERT of the rows of that date
SnapshotTable(d) ==
    {r \in d["customer_lifecycle_snapshot"] : r.snapshot_date # SnapshotDate(d)}
    \cup LifecycleRows(d, SnapshotDate(d))

\* the insights generate_business_insights inserts, by insight_id (the
\* segment insights, which depend on rfm_segment, are left out)
InsightRows(d) ==
    {[insight_id |-> "CONV_001"], [insight_id |-> "RISK_001"]}
    \cup (IF \E r \in d["cohort_analysis"] : r.activity_month # r.cohort_month
          THEN {[insight_id |-> "COH_001"]} ELSE {})
    \cup (IF \E r \in d["cumulative_retention_analysis"] :
                r.retention_window_months = 12
          THEN {[insight_id |-> "RET_001"]} ELSE {})
    \cup (IF d["campaign_targets"] # {} THEN {[insight_id |-> "CAMP_001"]} ELSE {})
    \cup (IF d["seasonal_trends"] # {} THEN {[insight_id |-> "SEAS_001"]} ELSE {})

\* The transformation of the step that builds table t, on stores d, with
\* CSV file file: the stores after it.
Transform(t, d, file) ==
    CASE t = "stg_sales_raw" -> [d EXCEPT ![t] = file]
      [] t = "stg_sales_cleaned" -> [d EXCEPT ![t] = CleanedTable(d)]
      [] t = "dim_date" ->
            [d EXCEPT ![t] = InsertOrReplace(@, DateRows(d), DateKey)]
      [] t = "dim_customer" ->
            [d EXCEPT ![t] = InsertOrReplace(@, CustomerRows(d), CustomerKey)]
      [] t = "dim_order" ->
            [d EXCEPT ![t] = InsertOrReplace(@, OrderRows(d), OrderKey)]
      [] t = "fact_sales" ->
            [d EXCEPT ![t] = InsertOrReplace(@, FactRows(d), FactKey)]
      [] t = "monthly_metrics" -> [d EXCEPT ![t] = MonthlyRows(d)]
      [] t = "cohort_analysis" -> [d EXCEPT ![t] = CohortRows(d)]
      [] t = "cumulative_retention_analysis" -> [d EXCEPT ![t] = RetentionRows(d)]
      [] t = "customer_ltv_analysis" -> [d EXCEPT ![t] = LtvRows(d)]
      [] t = "customer_segmentation" -> [d EXCEPT ![t] = SegmentationRows(d)]
      [] t = "seasonal_trends" -> [d EXCEPT ![t] = SeasonalRows(d)]
      [] t = "campaign_targets" -> [d EXCEPT ![t] = CampaignRows(d)]
      [] t = "customer_lifecycle_snapshot" ->
            IF NoSnapshotDate(d) THEN d ELSE [d EXCEPT ![t] = SnapshotTable(d)]
      [] t = "business_insights" -> [d EXCEPT ![t] = InsightRows(d)]

\* the steps ss applied in order: a layer run in which no step raises
RECURSIVE RunSteps(_, _, _)
RunSteps(ss, d, file) ==
    IF ss = << >> THEN d
    ELSE RunSteps(Tail(ss), Transform(Head(ss).table, d, file), file)

\* run_<layer>_pipeline of layer l, no step raising
RunLayer(l, d, file) == RunSteps(Steps(l), d, file)

\* the stores an earlier run over PriorFile left
PriorDb ==
    RunLayer("business", RunLayer("warehouse", RunLayer("staging", EmptyDb, PriorFile), PriorFile), PriorFile)

----------------------------------------------------------------------------
(* MasterPipelineRunner and the layer executors *)

NoResult == [status |-> "ABSENT", error |-> "", summary |-> ""]

NoReport ==
    [returned |-> FALSE, error |-> "", report_error |-> "",
     pipeline_status |-> [set |-> FALSE, value |-> << >>],
     data_quality_summary |-> [set |-> FALSE, value |-> {}],
     business_metrics |-> [set |-> FALSE, value |-> ""]]

\* MasterPipelineRunner.__init__: no orchestrator, no results; the stores
\* under ./data hold an empty ledger and either empty tables or the tables
\* an earlier run left; the CSV file is RunFile
Init ==
    /\ pc = "idle"
    /\ skip_layers = {}
    /\ layer = 0
    /\ step = 0
    /\ phase = 0
    /\ run_id = NoRunId
    /\ exc = ""
    /\ orchs = << >>
    /\ self_orchestrator = 0
    /\ layer_orchestrator = 0
    /\ results = [k \in ResultKeys |-> NoResult]
    /\ ret = "none"
    /\ pipeline_runs = << >>
    /\ data_quality_checks = << >>
    /\ clock = 1
    /\ report = NoReport
    /\ trace = << >>
    /\ dirty = 0
    /\ db \in {EmptyDb, PriorDb}
    /\ csv = RunFile
    /\ exit_status = "none"

CurLayer == LayerOrder[layer]

\* Faulty variant of Skipped: the business block tests the name of the warehouse
\* layer (a copied condition).
SkippedCopied(l) ==
    (IF l = "business" THEN "warehouse" ELSE l) \in skip_layers

\* the test of a layer block: the layer is named in skip_layers
Skipped(l) == l \in skip_layers

CurStep == Steps(CurLayer)[step]

\* an event of the run: what happened, in which layer, on which table, and
\* what it came with (the exception text, the check outcomes, the
\* orchestrator a layer executor was given)
Event(e, t, x) == [ev |-> e, layer |-> CurLayer, table |-> t, info |-> x]

\* run_full_pipeline is entered: the orchestrator of line 60 is constructed
\* and the first layer block is reached
RunFullPipeline(skip) ==
    /\ pc = "idle"
    /\ skip_layers' = skip
    /\ orchs' = Append(orchs, NewOrchestrator)
    /\ self_orchestrator' = Len(orchs) + 1
    /\ layer' = 1
    /\ pc' = "layers"
    /\ trace' = <<[ev |-> "RUN", layer |-> "", table |-> "", info |-> db]>>
    /\ UNCHANGED <<db, csv, exit_status, step, phase, run_id, exc, layer_orchestrator, results, ret,
                   pipeline_runs, data_quality_checks, clock, report,
                   dirty>>

\* the else branch of a layer block: the layer is in skip_layers
SkipLayer ==
    /\ pc = "layers"
    /\ layer <= Len(LayerOrder)
    /\ Skipped(CurLayer)
    /\ IF CurLayer = "staging" /\ self_orchestrator = 0
       THEN /\ orchs' = Append(orchs, NewOrchestrator)
            /\ self_orchestrator' = Len(orchs) + 1
       ELSE UNCHANGED <<orchs, self_orchestrator>>
    /\ layer' = layer + 1
    /\ trace' = Append(trace, Event("SKIP", "", ""))
    /\ UNCHANGED <<db, csv, exit_status, pc, skip_layers, step, phase, run_id, exc,
                   layer_orchestrator, results, ret, pipeline_runs,
                   data_quality_checks, clock, report, dirty>>

\* run_staging_pipeline up to its first step: it constructs an orchestrator
\* of its own, then the StagingLayer and the schema
BeginStaging ==
    /\ pc = "layers"
    /\ layer <= Len(LayerOrder)
    /\ CurLayer = "staging"
    /\ ~Skipped(CurLayer)
    /\ orchs' = Append(orchs, NewOrchestrator)
    /\ layer_orchestrator' = Len(orchs) + 1
    /\ step' = 1
    /\ pc' = "step_begin"
    /\ trace' = Append(trace, Event("LAYER", "", Len(orchs) + 1))
    /\ UNCHANGED <<db, csv, exit_status, skip_layers, layer, phase, run_id, exc, self_orchestrator,
                   results, ret, pipeline_runs, data_quality_checks, clock,
                   report, dirty>>

\* run_warehouse_pipeline / run_business_analysis_pipeline up to the first
\* step: the orchestrator passed in is used (a new one if None was passed),
\* the executor's constructor attaches the upstream store
BeginDownstream ==
    /\ pc = "layers"
    /\ layer <= Len(LayerOrder)
    /\ CurLayer # "staging"
    /\ ~Skipped(CurLayer)
    /\ LET made == self_orchestrator = 0
           os == IF made THEN Append(orchs, NewOrchestrator) ELSE orchs
           o == IF made THEN Len(orchs) + 1 ELSE self_orchestrator
           conn == Attachment(CurLayer)[1]
           alias == Attachment(CurLayer)[2]
       IN /\ layer_orchestrator' = o
          /\ IF os[o].databases[conn] = "closed"
             THEN /\ orchs' = os
                  /\ exc' = ClosedError
                  /\ pc' = "layer_raised"
                  /\ step' = step
                  /\ trace' = trace \o <<Event("LAYER", "", o),
                                         Event("RAISED", "", ClosedError)>>
             ELSE IF alias \in os[o].attached[conn]
             THEN /\ orchs' = os
                  /\ exc' = AttachError(alias)
                  /\ pc' = "layer_raised"
                  /\ step' = step
                  /\ trace' = trace \o <<Event("LAYER", "", o),
                                         Event("RAISED", "", AttachError(alias))>>
             ELSE /\ orchs' = [os EXCEPT ![o].attached[conn] = @ \cup {alias}]
                  /\ exc' = exc
                  /\ pc' = "step_begin"
                  /\ step' = 1
                  /\ trace' = Append(trace, Event("LAYER", "", o))
    /\ UNCHANGED <<db, csv, exit_status, skip_layers, layer, phase, run_id, self_orchestrator,
                   results, ret, pipeline_runs, data_quality_checks, clock,
                   report, dirty>>

\* first statement of a step function: log_pipeline_run(.., 'STARTED')
StepStarted ==
    /\ pc = "step_begin"
    /\ step <= Len(Steps(CurLayer))
    /\ pipeline_runs' = log_pipeline_run(pipeline_runs, LayerTag(CurLayer),
                            CurStep.table, "STARTED", "NULL", "NULL", clock)
    /\ run_id' = MakeRunId(LayerTag(CurLayer), CurStep.table, clock)
    /\ clock' = clock + 1
    /\ pc' = "transform"
    /\ trace' = Append(trace, Event("STARTED", CurStep.table, ""))
    /\ UNCHANGED <<db, csv, exit_status, skip_layers, layer, step, phase, exc, orchs,
                   self_orchestrator, layer_orchestrator, results, ret,
                   data_quality_checks, report, dirty>>

\* the transformation of the step completes: the target table is rewritten
TransformDone ==
    /\ pc = "transform"
    /\ CurStep.table = "customer_lifecycle_snapshot" => ~NoSnapshotDate(db)
    /\ db' = Transform(CurStep.table, db, csv)
    /\ pc' = "phases"
    /\ phase' = 1
    /\ trace' = Append(trace, Event("TRANSFORM", CurStep.table, ""))
    /\ UNCHANGED <<csv, exit_status, skip_layers, layer, step, run_id, exc, orchs,
                   self_orchestrator, layer_orchestrator, results, ret,
                   pipeline_runs, data_quality_checks, clock, report, dirty>>

\* Faulty variant of StepReturns: the step function that follows is not called.
StepReturnsSkipping ==
    /\ pc' = "step_begin"
    /\ step' = step + 2
    /\ phase' = 0
    /\ run_id' = NoRunId

\* the step function returns: the next step function, or the summary
StepReturns ==
    /\ pc' = "step_begin"
    /\ step' = step + 1
    /\ phase' = 0
    /\ run_id' = NoRunId

\* after statement number phase of the protocol: the next one, or return
AfterPhase ==
    IF phase = Len(CurStep.protocol)
    THEN StepReturns
    ELSE /\ phase' = phase + 1
         /\ UNCHANGED <<pc, step, run_id>>

\* build_customer_lifecycle_snapshot when warehouse.dim_date has no date:
\* SUCCESS with row count 0 is logged and the function returns
SnapshotNoDate ==
    /\ pc = "transform"
    /\ CurStep.table = "customer_lifecycle_snapshot"
    /\ NoSnapshotDate(db)
    /\ pipeline_runs' = log_pipeline_run(pipeline_runs, LayerTag(CurLayer),
                            CurStep.table, "SUCCESS", "0", "NULL", clock)
    /\ clock' = clock + 1
    /\ trace' = Append(trace, Event("SUCCESS", CurStep.table, ""))
    /\ StepReturns
    /\ UNCHANGED <<db, csv, exit_status, skip_layers, layer, exc, orchs, self_orchestrator,
                   layer_orchestrator, results, ret, data_quality_checks,
                   report, dirty>>

\* the transformation raises e: the except block of the step function logs
\* FAILED and re-raises; run_<layer>_pipeline logs and re-raises
TransformRaises(e) ==
    /\ pc = "transform"
    /\ pipeline_runs' = log_pipeline_run(pipeline_runs, LayerTag(CurLayer),
                            CurStep.table, "FAILED", "0", e, clock)
    /\ clock' = clock + 1
    /\ exc' = e
    /\ pc' = "layer_raised"
    /\ run_id' = NoRunId
    /\ trace' = Append(trace, Event("FAILED", CurStep.table, e))
    /\ UNCHANGED <<db, csv, exit_status, skip_layers, layer, step, phase, orchs, self_orchestrator,
                   layer_orchestrator, results, ret, data_quality_checks,
                   report, dirty>>

\* statement log_pipeline_run(.., 'SUCCESS', row_count) of a step function
LogSuccess ==
    /\ pc = "phases"
    /\ CurStep.protocol[phase] = "SUCCESS"
    /\ pipeline_runs' = log_pipeline_run(pipeline_runs, LayerTag(CurLayer),
                            CurStep.table, "SUCCESS", "count", "NULL", clock)
    /\ clock' = clock + 1
    /\ trace' = Append(trace, Event("SUCCESS", CurStep.table, ""))
    /\ AfterPhase
    /\ UNCHANGED <<db, csv, exit_status, skip_layers, layer, exc, orchs, self_orchestrator,
                   layer_orchestrator, results, ret, data_quality_checks,
                   report, dirty>>

\* outcomes of the n checks of a step: every predicate true, every one
\* false, or every one raising
Patterns(n) ==
    {[i \in 1..n |-> o] : o \in {"PASSED", "FAILED"} \cup CheckErrors}

AllPassed(q) == \A i \in DOMAIN q : q[i] = "PASSED"

\* Faulty variant of RunQualityChecks: the checks are given the run_id of a new
\* log_pipeline_run call instead of the one the STARTED call returned.
RunQualityChecksOtherId ==
    /\ pc = "phases"
    /\ CurStep.protocol[phase] = "CHECKS"
    /\ \E q \in Patterns(Len(CurStep.checks)) :
          /\ AllPassed(q) \/ dirty < MaxDirtySteps
          /\ dirty' = IF AllPassed(q) THEN dirty ELSE dirty + 1
          /\ data_quality_checks' =
                RunChecks(data_quality_checks,
                          MakeRunId(LayerTag(CurLayer), CurStep.table, clock),
                          CurStep.table, CurStep.checks, q, clock)
          /\ trace' = Append(trace, Event("CHECKS", CurStep.table, q))
    /\ clock' = clock + Len(CurStep.checks)
    /\ AfterPhase
    /\ UNCHANGED <<db, csv, exit_status, skip_layers, layer, exc, orchs,
                   self_orchestrator, layer_orchestrator, results, ret,
                   pipeline_runs, report>>

\* statement self._run_*_quality_checks(run_id) of a step function; q is
\* what evaluating the predicates gives on the data
RunQualityChecks ==
    /\ pc = "phases"
    /\ CurStep.protocol[phase] = "CHECKS"
    /\ \E q \in Patterns(Len(CurStep.checks)) :
          /\ AllPassed(q) \/ dirty < MaxDirtySteps
          /\ dirty' = IF AllPassed(q) THEN dirty ELSE dirty + 1
          /\ data_quality_checks' = RunChecks(data_quality_checks, run_id,
                                        CurStep.table, CurStep.checks, q, clock)
          /\ trace' = Append(trace, Event("CHECKS", CurStep.table, q))
    /\ clock' = clock + Len(CurStep.checks)
    /\ AfterPhase
    /\ UNCHANGED <<db, csv, exit_status, skip_layers, layer, exc, orchs, self_orchestrator,
                   layer_orchestrator, results, ret, pipeline_runs, report>>

\* statement <store>_conn.commit() of a step function
Commit ==
    /\ pc = "phases"
    /\ CurStep.protocol[phase] = "COMMIT"
    /\ trace' = Append(trace, Event("COMMIT", CurStep.table, ""))
    /\ AfterPhase
    /\ UNCHANGED <<db, csv, exit_status, skip_layers, layer, exc, orchs, self_orchestrator,
                   layer_orchestrator, results, ret, pipeline_runs,
                   data_quality_checks, clock, report, dirty>>

\* Faulty variant of LayerSucceeded: a layer one of whose checks is FAILED raises
\* instead of returning (a quality gate).
LayerSucceededGated ==
    /\ pc = "step_begin"
    /\ step > Len(Steps(CurLayer))
    /\ IF \E i \in DOMAIN data_quality_checks :
             /\ data_quality_checks[i].run_id.layer = LayerTag(CurLayer)
             /\ data_quality_checks[i].status = "FAILED"
       THEN /\ exc' = "quality gate"
            /\ pc' = "layer_raised"
            /\ UNCHANGED <<results, self_orchestrator, layer, step>>
       ELSE /\ results' = [results EXCEPT ![ResultKey(CurLayer)] =
                      [status |-> "SUCCESS", error |-> "", summary |-> CurLayer]]
            /\ self_orchestrator' = IF CurLayer = "staging" THEN layer_orchestrator
                                    ELSE self_orchestrator
            /\ layer' = layer + 1
            /\ step' = 0
            /\ pc' = "layers"
            /\ exc' = exc
    /\ UNCHANGED <<db, csv, exit_status, skip_layers, phase, run_id, orchs, layer_orchestrator,
                   ret, pipeline_runs, data_quality_checks, clock, report,
                   trace, dirty>>

\* get_<layer>_summary and the return of run_<layer>_pipeline: the layer
\* block records SUCCESS; the staging block also takes over the orchestrator
\* that run_staging_pipeline returns
LayerSucceeded ==
    /\ pc = "step_begin"
    /\ step > Len(Steps(CurLayer))
    /\ CurLayer = "warehouse" => db["fact_sales"] # {}
    /\ results' = [results EXCEPT ![ResultKey(CurLayer)] =
                      [status |-> "SUCCESS", error |-> "", summary |-> CurLayer]]
    /\ self_orchestrator' = IF CurLayer = "staging" THEN layer_orchestrator
                            ELSE self_orchestrator
    /\ layer' = layer + 1
    /\ step' = 0
    /\ pc' = "layers"
    /\ UNCHANGED <<db, csv, exit_status, skip_layers, phase, run_id, exc, orchs, layer_orchestrator,
                   ret, pipeline_runs, data_quality_checks, clock, report,
                   trace, dirty>>

\* Faulty variant of SummaryRaises: get_warehouse_summary raises whatever
\* fact_sales holds.
SummaryRaisesAlways ==
    /\ pc = "step_begin"
    /\ step > Len(Steps(CurLayer))
    /\ CurLayer = "warehouse"
    /\ exc' = SummaryError
    /\ pc' = "layer_raised"
    /\ trace' = Append(trace, Event("RAISED", "", SummaryError))
    /\ UNCHANGED <<db, csv, exit_status, skip_layers, layer, step, phase,
                   run_id, orchs, self_orchestrator, layer_orchestrator,
                   results, ret, pipeline_runs, data_quality_checks, clock,
                   report, dirty>>

\* get_warehouse_summary raises when fact_sales is empty: SUM(sales_amount)
\* is None and round(None, 2) is a TypeError
SummaryRaises ==
    /\ pc = "step_begin"
    /\ step > Len(Steps(CurLayer))
    /\ CurLayer = "warehouse"
    /\ db["fact_sales"] = {}
    /\ exc' = SummaryError
    /\ pc' = "layer_raised"
    /\ trace' = Append(trace, Event("RAISED", "", SummaryError))
    /\ UNCHANGED <<db, csv, exit_status, skip_layers, layer, step, phase, run_id, orchs,
                   self_orchestrator, layer_orchestrator, results, ret,
                   pipeline_runs, data_quality_checks, clock, report, dirty>>

\* Faulty variant of LayerFailed: the except block of the layer block does not
\* re-raise, the next layer block is reached.
LayerFailedResumes ==
    /\ pc = "layer_raised"
    /\ results' = [results EXCEPT ![ResultKey(CurLayer)] =
                      [status |-> "FAILED", error |-> exc, summary |-> ""]]
    /\ exc' = ""
    /\ layer' = layer + 1
    /\ step' = 0
    /\ pc' = "layers"
    /\ UNCHANGED <<db, csv, exit_status, skip_layers, phase, run_id, orchs, ret,
                   self_orchestrator, layer_orchestrator, pipeline_runs,
                   data_quality_checks, clock, report, trace, dirty>>

\* Faulty variant of LayerFailed: the outer except block returns True.
LayerFailedSwallowed ==
    /\ pc = "layer_raised"
    /\ results' = [results EXCEPT ![ResultKey(CurLayer)] =
                      [status |-> "FAILED", error |-> exc, summary |-> ""]]
    /\ exc' = ""
    /\ ret' = "True"
    /\ pc' = "finally"
    /\ UNCHANGED <<db, csv, exit_status, skip_layers, layer, step, phase, run_id, orchs,
                   self_orchestrator, layer_orchestrator, pipeline_runs,
                   data_quality_checks, clock, report, trace, dirty>>

\* the except block of a layer block records FAILED and re-raises; the outer
\* except block catches: run_full_pipeline is to return False
LayerFailed ==
    /\ pc = "layer_raised"
    /\ results' = [results EXCEPT ![ResultKey(CurLayer)] =
                      [status |-> "FAILED", error |-> exc, summary |-> ""]]
    /\ exc' = ""
    /\ ret' = "False"
    /\ pc' = "finally"
    /\ UNCHANGED <<db, csv, exit_status, skip_layers, layer, step, phase, run_id, orchs,
                   self_orchestrator, layer_orchestrator, pipeline_runs,
                   data_quality_checks, clock, report, trace, dirty>>

\* past the last layer block: run_full_pipeline is to return True
PipelineCompleted ==
    /\ pc = "layers"
    /\ layer > Len(LayerOrder)
    /\ ret' = "True"
    /\ pc' = "finally"
    /\ UNCHANGED <<db, csv, exit_status, skip_layers, layer, step, phase, run_id, exc, orchs,
                   self_orchestrator, layer_orchestrator, results,
                   pipeline_runs, data_quality_checks, clock, report, trace,
                   dirty>>

\* an orchestrator that nothing closed and nothing refers to any more: the
\* garbage collector may or may not have finalized it (which closes its
\* handles) by the time run_full_pipeline returns
Finalize(os, keep, collected) ==
    [i \in DOMAIN os |->
        IF i # keep /\ collected THEN close_connections(os[i]) ELSE os[i]]

\* the finally block: runner.orchestrator, if any, closes its connections;
\* then run_full_pipeline returns
Finally ==
    /\ pc = "finally"
    /\ \E collected \in BOOLEAN :
          orchs' = Finalize(IF self_orchestrator # 0
                            THEN [orchs EXCEPT ![self_orchestrator] =
                                                   close_connections(@)]
                            ELSE orchs,
                            self_orchestrator, collected)
    /\ pc' = "returned"
    /\ UNCHANGED <<db, csv, exit_status, skip_layers, layer, step, phase, run_id, exc,
                   self_orchestrator, layer_orchestrator, results, ret,
                   pipeline_runs, data_quality_checks, clock, report, trace,
                   dirty>>

RECURSIVE Reverse(_)
Reverse(s) == IF s = << >> THEN << >> ELSE Append(Reverse(Tail(s)), Head(s))

\* get_pipeline_status: the StatusLimit most recent runs, newest first
get_pipeline_status(runs) ==
    LET newest == Reverse(runs)
        n == IF Len(newest) < StatusLimit THEN Len(newest) ELSE StatusLimit
    IN [i \in 1..n |->
           [layer |-> newest[i].layer, table_name |-> newest[i].table_name,
            status |-> newest[i].status, row_count |-> newest[i].row_count,
            error_message |-> newest[i].error_message]]

\* get_data_quality_summary: counts per (table_name, check_type)
get_data_quality_summary(checks) ==
    LET rows(t, ty) == {i \in DOMAIN checks :
                           checks[i].table_name = t /\ checks[i].check_type = ty}
    IN {[table_name |-> checks[i].table_name,
         check_type |-> checks[i].check_type,
         total_checks |-> Cardinality(rows(checks[i].table_name, checks[i].check_type)),
         passed |-> Cardinality({j \in rows(checks[i].table_name, checks[i].check_type) :
                                    checks[j].status = "PASSED"}),
         failed |-> Cardinality({j \in rows(checks[i].table_name, checks[i].check_type) :
                                    checks[j].status = "FAILED"})]
        : i \in DOMAIN checks}

\* the report get_pipeline_report builds on orchestrator o: a query on a
\* closed handle raises, and the except block keeps what was filled before
BuildReport(o, res, runs, checks) ==
    IF o.databases["metadata"] = "closed"
    THEN [NoReport EXCEPT !.returned = TRUE,
                          !.report_error = "Error generating report: " \o ClosedError]
    ELSE LET filled ==
                 [NoReport EXCEPT
                     !.returned = TRUE,
                     !.pipeline_status = [set |-> TRUE,
                                          value |-> get_pipeline_status(runs)],
                     !.data_quality_summary = [set |-> TRUE,
                                               value |-> get_data_quality_summary(checks)]]
         IN IF res["layer3"].status # "SUCCESS" THEN filled
            ELSE IF o.databases["business"] = "closed"
            THEN [filled EXCEPT !.report_error =
                                    "Error generating report: " \o ClosedError]
            ELSE [filled EXCEPT !.business_metrics =
                                    [set |-> TRUE, value |-> "insights, campaigns"]]

\* get_pipeline_report, called when run_full_pipeline is not running
GetPipelineReport ==
    /\ pc \in {"idle", "returned"}
    /\ report' = IF self_orchestrator = 0
                 THEN [NoReport EXCEPT !.returned = TRUE,
                                       !.error = "Pipeline has not been run yet"]
                 ELSE BuildReport(orchs[self_orchestrator], results,
                                  pipeline_runs, data_quality_checks)
    /\ UNCHANGED <<db, csv, exit_status, pc, skip_layers, layer, step, phase, run_id, exc, orchs,
                   self_orchestrator, layer_orchestrator, results, ret,
                   pipeline_runs, data_quality_checks, clock, trace, dirty>>

\* main() without --report-only, after run_full_pipeline has returned: the
\* summary is printed; on success with a SUCCESS result of layer3 the
\* business_insights table is read through runner.orchestrator's business
\* handle, which raises on a closed handle (an uncaught exception ends the
\* process with status 1, and run_pipeline.py turns it into 1 as well);
\* otherwise main returns 0 on success and 1 on failure
MainExit ==
    /\ pc = "returned"
    /\ exit_status = "none"
    /\ exit_status' =
          IF ret = "True"
          THEN IF /\ results["layer3"].status = "SUCCESS"
                  /\ orchs[self_orchestrator].databases["business"] = "closed"
               THEN "1"
               ELSE "0"
          ELSE "1"
    /\ UNCHANGED <<pc, skip_layers, layer, step, phase, run_id, exc, orchs,
                   self_orchestrator, layer_orchestrator, results, ret,
                   pipeline_runs, data_quality_checks, clock, report, trace,
                   dirty, db, csv>>

Next ==
    \/ \E skip \in SUBSET LayerNames : RunFullPipeline(skip)
    \/ SkipLayer
    \/ BeginStaging
    \/ BeginDownstream
    \/ StepStarted
    \/ TransformDone
    \/ SnapshotNoDate
    \/ \E e \in StepErrors : TransformRaises(e)
    \/ LogSuccess
    \/ RunQualityChecks
    \/ Commit
    \/ LayerSucceeded
    \/ SummaryRaises
    \/ LayerFailed
    \/ PipelineCompleted
    \/ Finally
    \/ GetPipelineReport
    \/ MainExit

Spec == Init /\ [][Next]_vars

----------------------------------------------------------------------------
(* The ledger function and the transformations on their own *)

\* the variables of the runner while no run_full_pipeline call is made
RunnerIdle ==
    /\ skip_layers = {}
    /\ layer = 0
    /\ step = 0
    /\ phase = 0
    /\ run_id = NoRunId
    /\ exc = ""
    /\ orchs = << >>
    /\ self_orchestrator = 0
    /\ layer_orchestrator = 0
    /\ results = [k \in ResultKeys |-> NoResult]
    /\ ret = "none"
    /\ data_quality_checks = << >>
    /\ report = NoReport
    /\ dirty = 0
    /\ exit_status = "none"

runnerVars ==
    <<skip_layers, layer, step, phase, run_id, exc, orchs, self_orchestrator,
      layer_orchestrator, results, ret, data_quality_checks, report, dirty,
      exit_status>>

\* at most this many log_pipeline_run calls are made
MaxCalls == 4

\* the (layer, table_name) arguments of the calls
LedgerTargets ==
    {<<"STAGING", "stg_sales_raw">>, <<"WAREHOUSE", "dim_date">>}

\* an empty pipeline_runs table
LedgerInit ==
    /\ pc = "ledger"
    /\ RunnerIdle
    /\ pipeline_runs = << >>
    /\ clock = 1
    /\ trace = << >>
    /\ db = EmptyDb
    /\ csv = {}

\* one call log_pipeline_run(l, t, status, row_count, error_message); the
\* call is remembered with the run_id it returned
LogPipelineRunCall(l, t, status, row_count, error_message) ==
    /\ pc = "ledger"
    /\ Len(trace) < MaxCalls
    /\ pipeline_runs' = log_pipeline_run(pipeline_runs, l, t, status, row_count,
                                         error_message, clock)
    /\ clock' = clock + 1
    /\ trace' = Append(trace, [ev |-> status, layer |-> l, table |-> t,
                               info |-> MakeRunId(l, t, clock)])
    /\ UNCHANGED <<pc, db, csv>>
    /\ UNCHANGED runnerVars

LedgerNext ==
    \E x \in LedgerTargets :
        \/ LogPipelineRunCall(x[1], x[2], "STARTED", "NULL", "NULL")
        \/ LogPipelineRunCall(x[1], x[2], "SUCCESS", "count", "NULL")
        \/ \E e \in StepErrors : LogPipelineRunCall(x[1], x[2], "FAILED", "0", e)

LedgerSpec == LedgerInit /\ [][LedgerNext]_vars

\* at most this many layer runs are made
MaxLayerRuns == 3

\* the stores an earlier run left (or empty tables), the file it loaded
RebuildInit ==
    /\ pc = "rebuild"
    /\ RunnerIdle
    /\ pipeline_runs = << >>
    /\ clock = 1
    /\ trace = << >>
    /\ db \in {EmptyDb, PriorDb}
    /\ csv = PriorFile

\* a run of layer l in which no step raises, on CSV file file; the stores
\* before and after it are remembered
Rebuild(l, file) ==
    /\ pc = "rebuild"
    /\ Len(trace) < MaxLayerRuns
    /\ csv' = file
    /\ db' = RunLayer(l, db, file)
    /\ trace' = Append(trace, [ev |-> "REBUILD", layer |-> l, table |-> "",
                               info |-> [file |-> file, before |-> db,
                                         after |-> RunLayer(l, db, file)]])
    /\ UNCHANGED <<pc, pipeline_runs, clock>>
    /\ UNCHANGED runnerVars

\* run_staging_pipeline(csv_file_path) on a file of the model
RerunStaging == \E file \in CsvFiles : Rebuild("staging", file)

\* run_warehouse_pipeline
RerunWarehouse == Rebuild("warehouse", csv)

\* run_business_analysis_pipeline
RerunBusiness == Rebuild("business", csv)

RebuildNext == RerunStaging \/ RerunWarehouse \/ RerunBusiness

RebuildSpec == RebuildInit /\ [][RebuildNext]_vars

----------------------------------------------------------------------------
(* Python float arithmetic (IEEE 754 binary64, round to nearest, ties to    *)
(* even) on the values check_null_percentage computes. A positive float is  *)
(* [exp, bits]: bits are the Precision bits of its significand, the first   *)
(* one 1 and of weight 2^exp. Zero is FloatZero.                             *)

\* bits of the significand of a Python float
Precision == 53

FloatZero == [exp |-> 0, bits |-> << >>]

\* the number of doublings that bring n up to t or above
RECURSIVE Shift(_, _)
Shift(n, t) == IF n >= t THEN 0 ELSE 1 + Shift(2 * n, t)

\* 2^j modulo m
RECURSIVE Pow2Mod(_, _)
Pow2Mod(j, m) ==
    IF j = 0 THEN 1 % m
    ELSE (Pow2Mod(j \div 2, m) * Pow2Mod(j \div 2, m)
            * (IF j % 2 = 1 THEN 2 ELSE 1)) % m

\* the first k bits of the quotient r / t (t <= r < 2t): bit i is the parity
\* of the integer part of r * 2^(i-1) / t
DivBits(r, t, k) ==
    [i \in 1..k |->
        IF (r * Pow2Mod(i - 1, 2 * t)) % (2 * t) >= t THEN 1 ELSE 0]

\* twice the remainder that is left after those k bits
DivRest(r, t, k) == 2 * ((r * Pow2Mod(k - 1, t)) % t)

\* the bits plus one unit in the last place (not all bits are 1): the bits
\* after the last 0 become 0 and that 0 becomes 1
IncBits(b) ==
    LET z == CHOOSE i \in DOMAIN b :
                 b[i] = 0 /\ \A j \in (i + 1)..Len(b) : b[j] = 1
    IN  [i \in DOMAIN b |-> IF i < z THEN b[i] ELSE IF i = z THEN 1 ELSE 0]

\* the float of significand bits and exponent e, rounded up by one unit in
\* the last place if up
Rounded(bits, e, up) ==
    IF ~up THEN [exp |-> e, bits |-> bits]
    ELSE IF \A i \in DOMAIN bits : bits[i] = 1
         THEN [exp |-> e + 1,
               bits |-> [i \in DOMAIN bits |-> IF i = 1 THEN 1 ELSE 0]]
         ELSE [exp |-> e, bits |-> IncBits(bits)]

\* n / t for integers 0 <= n <= t, 0 < t: the quotient rounded to Precision bits
FloatDiv(n, t) ==
    IF n = 0 THEN FloatZero
    ELSE LET s == Shift(n, t)
             r == n * 2^s
             bits == DivBits(r, t, Precision)
             rest == DivRest(r, t, Precision)
         IN  Rounded(bits, 0 - s,
                     rest > t \/ (rest = t /\ bits[Precision] = 1))

\* the integer of the binary digits i .. j of b
RECURSIVE BitsValue(_, _, _)
BitsValue(b, i, j) ==
    IF j < i THEN 0 ELSE 2 * BitsValue(b, i, j - 1) + b[j]

\* the n binary digits of v, most significant first
Bits(v, n) == [i \in 1..n |-> (v \div 2^(n - i)) % 2]

\* the number of binary digits of v > 0
BitLength(v) == CHOOSE n \in 1..30 : 2^(n - 1) <= v /\ v < 2^n

\* bits of a limb of the significand in the multiplication
Limb == 18

\* x * k for an integer 2 <= k < 2^12: the product, computed on the limbs of
\* the significand, rounded to Precision bits
FloatMulInt(x, k) ==
    IF x = FloatZero THEN FloatZero
    ELSE LET p0 == BitsValue(x.bits, Precision - Limb + 1, Precision) * k
             p1 == BitsValue(x.bits, Precision - 2 * Limb + 1,
                             Precision - Limb) * k + p0 \div 2^Limb
             p2 == BitsValue(x.bits, 1, Precision - 2 * Limb) * k
                      + p1 \div 2^Limb
             p == Bits(p2, BitLength(p2)) \o Bits(p1 % 2^Limb, Limb)
                     \o Bits(p0 % 2^Limb, Limb)
             extra == Len(p) - Precision
             top == SubSeq(p, 1, Precision)
             low == SubSeq(p, Precision + 1, Len(p))
             above == \E i \in 2..Len(low) : low[i] = 1
         IN  Rounded(top, x.exp + extra,
                     /\ low[1] = 1
                     /\ above \/ top[Precision] = 1)

\* x <= m for a float m with an integer value, 0 <= m
FloatLeqInt(x, m) ==
    IF x = FloatZero THEN TRUE
    ELSE IF x.exp < 0 THEN m >= 1
    ELSE LET whole == BitsValue(x.bits, 1, x.exp + 1)
             part == \E i \in (x.exp + 2)..Len(x.bits) : x.bits[i] = 1
         IN  whole < m \/ (whole = m /\ ~part)

----------------------------------------------------------------------------
(* DataQualityChecker on the tables of a store. In the tables it is given   *)
(* a cell is a sequence: Null for SQL NULL (Python None), the characters   *)
(* of a text, or the one number of a numeric cell.                          *)

Null == << >>

\* the text of a date as date() and the date literals of the callers write
\* it, YYYY-MM-DD, as the code points of its characters
Iso(y, m, d) ==
    << 48 + (y \div 1000), 48 + ((y \div 100) % 10), 48 + ((y \div 10) % 10),
       48 + (y % 10), 45, 48 + (m \div 10), 48 + (m % 10), 45,
       48 + (d \div 10), 48 + (d % 10) >>

\* a < b on Python str and on SQLite TEXT: the first character that differs
\* decides, and a proper prefix is smaller
StrLess(a, b) ==
    \E i \in 1..Len(b) :
        /\ i <= Len(a) + 1
        /\ \A j \in 1..(i - 1) : a[j] = b[j]
        /\ i <= Len(a) => a[i] < b[i]

\* the columns of the staging tables
Columns(t) ==
    CASE t = "stg_sales_raw" -> {"date_raw", "customer_id", "order_id", "sales"}
      [] t = "stg_sales_cleaned" ->
            {"date_parsed", "customer_id", "order_id", "sales_amount",
             "data_quality_flag"}
      [] OTHER -> {}

NoSuchTable == "no such table"

NoSuchColumn == "no such column"

NoneTypeError == "'<' not supported between instances of 'NoneType' and 'str'"

\* the exception conn.execute raises on a query of column col of table t of
\* the stores d ("" if none)
QueryError(d, t, col) ==
    IF t \notin DOMAIN d THEN NoSuchTable
    ELSE IF col \notin Columns(t) THEN NoSuchColumn
    ELSE ""

\* check_row_count: SELECT COUNT(*) against min_rows
RowCountOutcome(d, t, min_rows) ==
    IF t \notin DOMAIN d THEN NoSuchTable
    ELSE IF Cardinality(d[t]) >= min_rows THEN "PASSED" ELSE "FAILED"

\* actual_null_pct of check_null_percentage
NullPercentage(d, t, col) ==
    LET total_rows == Cardinality(d[t])
        null_rows == Cardinality({r \in d[t] : r[col] = Null})
    IN  IF total_rows > 0
        THEN FloatMulInt(FloatDiv(null_rows, total_rows), 100)
        ELSE FloatZero

\* check_null_percentage: actual_null_pct <= max_null_pct
NullPercentageOutcome(d, t, col, max_null_pct) ==
    IF QueryError(d, t, col) # "" THEN QueryError(d, t, col)
    ELSE IF FloatLeqInt(NullPercentage(d, t, col), max_null_pct)
         THEN "PASSED" ELSE "FAILED"

\* check_unique_count: SELECT COUNT(DISTINCT col) against min_unique
UniqueCountOutcome(d, t, col, min_unique) ==
    IF QueryError(d, t, col) # "" THEN QueryError(d, t, col)
    ELSE IF Cardinality({r[col] : r \in d[t]} \ {Null}) >= min_unique
         THEN "PASSED" ELSE "FAILED"

\* SELECT MIN(col), MAX(col) FROM t WHERE col IS NOT NULL
MinMaxDates(d, t, col) ==
    LET vals == {r[col] : r \in d[t]} \ {Null} IN
    IF vals = {} THEN [min |-> Null, max |-> Null]
    ELSE [min |-> CHOOSE x \in vals : \A y \in vals : ~StrLess(y, x),
          max |-> CHOOSE x \in vals : \A y \in vals : ~StrLess(x, y)]

\* Faulty variant of DateRangeOutcome: only the smallest date is compared.
DateRangeOutcomeMinOnly(d, t, col, min_date, max_date) ==
    IF QueryError(d, t, col) # "" THEN QueryError(d, t, col)
    ELSE LET actual == MinMaxDates(d, t, col) IN
         IF actual.min = Null THEN NoneTypeError
         ELSE IF StrLess(actual.min, min_date) THEN "FAILED" ELSE "PASSED"

\* check_date_range: actual_min < min_date or actual_max > max_date fails the
\* check; the comparison of None with a str raises TypeError
DateRangeOutcome(d, t, col, min_date, max_date) ==
    IF QueryError(d, t, col) # "" THEN QueryError(d, t, col)
    ELSE LET actual == MinMaxDates(d, t, col) IN
         IF actual.min = Null THEN NoneTypeError
         ELSE IF StrLess(actual.min, min_date) \/ StrLess(max_date, actual.max)
              THEN "FAILED" ELSE "PASSED"

\* what a check method leaves: the ledger and the value it returns
Checked(checks, rid, t, c, outcome, now) ==
    [checks |-> RunCheck(checks, rid, t, c, outcome, now),
     ret |-> outcome = "PASSED"]

\* Faulty variant of check_row_count: the method returns True on every path.
check_row_count_true(checks, rid, d, t, min_rows, now) ==
    [checks |-> RunCheck(checks, rid, t, Chk("ROW_COUNT", "min_rows_check"),
                         RowCountOutcome(d, t, min_rows), now),
     ret |-> TRUE]

check_row_count(checks, rid, d, t, min_rows, now) ==
    Checked(checks, rid, t, Chk("ROW_COUNT", "min_rows_check"),
            RowCountOutcome(d, t, min_rows), now)

check_null_percentage(checks, rid, d, t, col, max_null_pct, now) ==
    Checked(checks, rid, t, Chk("NULL_CHECK", col \o "_null_check"),
            NullPercentageOutcome(d, t, col, max_null_pct), now)

check_unique_count(checks, rid, d, t, col, min_unique, now) ==
    Checked(checks, rid, t, Chk("UNIQUENESS", col \o "_unique_check"),
            UniqueCountOutcome(d, t, col, min_unique), now)

\* Faulty variant of check_date_range: without the except block, a predicate
\* that raises records nothing.
check_date_range_unguarded(checks, rid, d, t, col, min_date, max_date, now) ==
    LET outcome == DateRangeOutcome(d, t, col, min_date, max_date) IN
    [checks |-> RunCheckSilent(checks, rid, t,
                               Chk("DATE_RANGE", col \o "_range_check"),
                               outcome, now),
     ret |-> outcome = "PASSED"]

check_date_range(checks, rid, d, t, col, min_date, max_date, now) ==
    Checked(checks, rid, t, Chk("DATE_RANGE", col \o "_range_check"),
            DateRangeOutcome(d, t, col, min_date, max_date), now)

\* min_rows of _run_raw_data_quality_checks
MinRows == 1000

\* min_unique of _run_raw_data_quality_checks
MinUniqueCustomers == 30000

\* _run_raw_data_quality_checks(run_id)
run_raw_data_quality_checks(checks, rid, d, now) ==
    LET t == "stg_sales_raw"
        c1 == check_row_count(checks, rid, d, t, MinRows, now).checks
        c2 == check_null_percentage(c1, rid, d, t, "customer_id", 0,
                                    now + 1).checks
        c3 == check_null_percentage(c2, rid, d, t, "order_id", 0,
                                    now + 2).checks
        c4 == check_null_percentage(c3, rid, d, t, "sales", 0, now + 3).checks
    IN  check_unique_count(c4, rid, d, t, "customer_id", MinUniqueCustomers,
                           now + 4).checks

\* the inline check of _run_cleaned_data_quality_checks: valid_pct >= 95.0,
\* where valid_pct is None on an empty table and None >= 95.0 raises. (The
\* quotient valid * 100.0 / COUNT(*) is rounded monotonically and 95.0 is a
\* float, so the float comparison is that of the exact quotient.)
ValidRecordsOutcome(d) ==
    LET rows == d["stg_sales_cleaned"]
        valid == Cardinality({r \in rows : r.data_quality_flag = "VALID"})
    IN  IF rows = {}
        THEN "'>=' not supported between instances of 'NoneType' and 'float'"
        ELSE IF valid * 100 >= 95 * Cardinality(rows)
             THEN "PASSED" ELSE "FAILED"

\* the dates check_date_range is given by _run_cleaned_data_quality_checks
RangeMin == Iso(2020, 1, 1)

RangeMax == Iso(2025, 12, 31)

\* _run_cleaned_data_quality_checks(run_id)
run_cleaned_data_quality_checks(checks, rid, d, now) ==
    LET t == "stg_sales_cleaned"
        c1 == RunCheck(checks, rid, t,
                       Chk("DATA_VALIDITY", "valid_records_check"),
                       ValidRecordsOutcome(d), now)
    IN  check_date_range(c1, rid, d, t, "date_parsed", RangeMin, RangeMax,
                         now + 1).checks

\* at most this many rows in a table of arbitrary content
MaxRows == 20

\* stg_sales_raw with total rows, nulls of them without customer_id
RawTable(total, nulls) ==
    {[date_raw |-> Iso(2021, 1, 1),
      customer_id |-> IF i <= nulls THEN Null ELSE <<1 + (i % 3)>>,
      order_id |-> <<i>>, sales |-> <<5>>] : i \in 1..total}

\* the dates in the tables of arbitrary content
IsoDates ==
    {Iso(2019, 12, 31), Iso(2020, 1, 1), Iso(2021, 6, 30), Iso(2025, 12, 31),
     Iso(2026, 1, 1)}

\* stg_sales_cleaned with one valid row for each date of S and k rows whose
\* date did not parse
CleanedRows(S, k) ==
    {[date_parsed |-> s, customer_id |-> <<1>>, order_id |-> <<1>>,
      sales_amount |-> <<5>>, data_quality_flag |-> "VALID", copy |-> 1]
     : s \in S}
    \cup {[date_parsed |-> Null, customer_id |-> <<1>>, order_id |-> <<1 + i>>,
           sales_amount |-> <<5>>, data_quality_flag |-> "INVALID_DATE",
           copy |-> 1] : i \in 1..k}

\* the file of the end-to-end scenario, loaded: 1,200 rows from 2021-01-01 to
\* 2021-06-30, 50 customers, positive sales, no null identifier
ScenarioRaw ==
    {[date_raw |-> IF i = 1200 THEN Iso(2021, 6, 30)
                   ELSE Iso(2021, 1 + ((i - 1) % 6), 1 + (((i - 1) \div 6) % 28)),
      customer_id |-> <<1 + (i % 50)>>, order_id |-> <<i>>, sales |-> <<5>>]
     : i \in 1..1200}

\* clean_and_validate_data on the rows of the scenario: every row is VALID
ScenarioCleaned ==
    {[date_parsed |-> r.date_raw, customer_id |-> r.customer_id,
      order_id |-> r.order_id, sales_amount |-> r.sales,
      data_quality_flag |-> "VALID", copy |-> 1] : r \in ScenarioRaw}

ScenarioStores ==
    [EmptyDb EXCEPT !["stg_sales_raw"] = ScenarioRaw,
                    !["stg_sales_cleaned"] = ScenarioCleaned]

\* the stores the checks are run on
CheckerStores ==
    {[EmptyDb EXCEPT !["stg_sales_raw"] = RawTable(p[1], p[2])]
     : p \in {q \in (0..MaxRows) \X (0..MaxRows) : q[2] <= q[1]}}
    \cup {[EmptyDb EXCEPT !["stg_sales_cleaned"] = CleanedRows(S, k)]
          : S \in SUBSET IsoDates, k \in 0..1}
    \cup {ScenarioStores}

\* the run_id the step function passes on
CheckerRunId == MakeRunId("STAGING", "stg_sales_raw", 0)

CheckerInit ==
    /\ pc = "checker"
    /\ RunnerIdle
    /\ pipeline_runs = << >>
    /\ clock = 1
    /\ trace = << >>
    /\ db \in CheckerStores
    /\ csv = {}

\* a call of a check method returned r: the call is remembered with its
\* arguments and the value it returned
CheckReturns(method, t, col, args, r) ==
    /\ pc = "checker"
    /\ pc' = "checked"
    /\ data_quality_checks' = r.checks
    /\ clock' = clock + 1
    /\ trace' = Append(trace, [ev |-> method, layer |-> "STAGING", table |-> t,
                               info |-> [column |-> col, args |-> args,
                                         ret |-> r.ret]])
    /\ UNCHANGED <<skip_layers, layer, step, phase, run_id, exc, orchs,
                   self_orchestrator, layer_orchestrator, results, ret,
                   pipeline_runs, report, dirty, db, csv, exit_status>>

CheckRowCount ==
    \E t \in {"stg_sales_raw", "stg_sales_old"}, min_rows \in {1, MinRows} :
        CheckReturns("check_row_count", t, "", <<min_rows>>,
                     check_row_count(data_quality_checks, CheckerRunId, db, t,
                                     min_rows, clock))

\* the values of max_null_pct: 0.0, 5.0, .., 100.0
NullThresholds == {5 * k : k \in 0..20}

CheckNullPercentage ==
    \E col \in {"customer_id", "customer"}, max_null_pct \in NullThresholds :
        CheckReturns("check_null_percentage", "stg_sales_raw", col,
                     <<max_null_pct>>,
                     check_null_percentage(data_quality_checks, CheckerRunId,
                                           db, "stg_sales_raw", col,
                                           max_null_pct, clock))

CheckUniqueCount ==
    \E col \in {"customer_id", "customer"},
       min_unique \in {1, MinUniqueCustomers} :
        CheckReturns("check_unique_count", "stg_sales_raw", col,
                     <<min_unique>>,
                     check_unique_count(data_quality_checks, CheckerRunId, db,
                                        "stg_sales_raw", col, min_unique,
                                        clock))

CheckDateRange ==
    \E col \in {"date_parsed", "date"} :
        CheckReturns("check_date_range", "stg_sales_cleaned", col,
                     <<RangeMin, RangeMax>>,
                     check_date_range(data_quality_checks, CheckerRunId, db,
                                      "stg_sales_cleaned", col, RangeMin,
                                      RangeMax, clock))

RunRawDataQualityChecks ==
    CheckReturns("_run_raw_data_quality_checks", "stg_sales_raw", "", << >>,
                 [checks |-> run_raw_data_quality_checks(
                                 data_quality_checks, CheckerRunId, db, clock),
                  ret |-> "None"])

RunCleanedDataQualityChecks ==
    CheckReturns("_run_cleaned_data_quality_checks", "stg_sales_cleaned", "",
                 << >>,
                 [checks |-> run_cleaned_data_quality_checks(
                                 data_quality_checks, CheckerRunId, db, clock),
                  ret |-> "None"])

CheckerNext ==
    \/ CheckRowCount
    \/ CheckNullPercentage
    \/ CheckUniqueCount
    \/ CheckDateRange
    \/ RunRawDataQualityChecks
    \/ RunCleanedDataQualityChecks

CheckerSpec == CheckerInit /\ [][CheckerNext]_vars

----------------------------------------------------------------------------
(* The value columns of cumulative_retention_analysis and of                *)
(* customer_segmentation, which Transform leaves out, computed on warehouse *)
(* tables whose rows carry the columns the two statements read. A date is   *)
(* a day number in a calendar of 30-day months that starts in January 2021. *)

CalYear(day) == 2021 + (day \div 360)

CalMonth(day) == 1 + ((day \div 30) % 12)

\* (d.year - c.first_order_cohort_year) * 12 + (d.month - <month of the
\* cohort>) of build_cumulative_retention_analysis
MonthOffset(dd, c) ==
    (dd.year - c.first_order_cohort_year) * 12
        + (dd.month - c.first_order_cohort_month)

\* ROUND(x, 2) of the quotient num / den >= 0, in hundredths
Round2(num, den) == (2 * 100 * num + den) \div (2 * den)

\* the rows one INSERT of build_cumulative_retention_analysis writes for the
\* window of w months
RetentionWindowRows(d, w) ==
    LET cohort(c) == <<c.first_order_cohort_year, c.first_order_cohort_month>>
        cohort_size(k) ==
            Cardinality({c.customer_id : c \in {x \in d["dim_customer"] :
                                                   cohort(x) = k}})
        active(k) ==
            {f.customer_id : f \in {g \in d["fact_sales"] :
                \E dd \in d["dim_date"], c \in d["dim_customer"] :
                    /\ dd.date_id = g.date_id
                    /\ c.customer_id = g.customer_id
                    /\ cohort(c) = k
                    /\ MonthOffset(dd, c) >= 0
                    /\ MonthOffset(dd, c) <= w}}
    IN  {[cohort_month |-> k, retention_window_months |-> w,
          cohort_size |-> cohort_size(k),
          active_customers |-> Cardinality(active(k)),
          cumulative_retention_rate |->
              Round2(Cardinality(active(k)) * 100, cohort_size(k))]
         : k \in {x \in {cohort(c) : c \in d["dim_customer"]} :
                     active(x) # {} /\ cohort_size(x) >= MinCohortSize}}

\* the windows of build_cumulative_retention_analysis
RetentionWindows == {3, 12, 18}

\* cumulative_retention_analysis after build_cumulative_retention_analysis
CumulativeRetentionTable(d) ==
    UNION {RetentionWindowRows(d, w) : w \in RetentionWindows}

\* recency_score of build_customer_segmentation
RecencyScore(days) ==
    IF days <= 30 THEN 5
    ELSE IF days <= 60 THEN 4
    ELSE IF days <= 90 THEN 3
    ELSE IF days <= 180 THEN 2
    ELSE 1

FrequencyScore(total_orders) ==
    IF total_orders >= 10 THEN 5
    ELSE IF total_orders >= 5 THEN 4
    ELSE IF total_orders >= 3 THEN 3
    ELSE IF total_orders >= 2 THEN 2
    ELSE 1

\* Faulty variant of Ntile: the buckets are numbered from 0.
NtileFromZero(i, n, k) ==
    LET q == n \div k
        r == n % k
    IN  IF i <= r * (q + 1)
        THEN (i - 1) \div (q + 1)
        ELSE r + ((i - r * (q + 1) - 1) \div q)

\* NTILE(k) of row number i of n rows: the first n % k buckets hold one row
\* more than the others
Ntile(i, n, k) ==
    LET q == n \div k
        r == n % k
    IN  IF i <= r * (q + 1)
        THEN 1 + ((i - 1) \div (q + 1))
        ELSE 1 + r + ((i - r * (q + 1) - 1) \div q)

\* rfm_segment of build_customer_segmentation
RfmSegment(r, f, m) ==
    IF r >= 4 /\ f >= 4 /\ m >= 4 THEN "Champions"
    ELSE IF r >= 3 /\ f >= 3 /\ m >= 3 THEN "Loyal Customers"
    ELSE IF r >= 4 /\ f <= 2 THEN "New Customers"
    ELSE IF r <= 3 /\ f >= 3 THEN "At Risk"
    ELSE IF r <= 2 /\ f <= 2 /\ m >= 3 THEN "Cannot Lose Them"
    ELSE IF r <= 2 THEN "Lost Customers"
    ELSE "Others"

\* customer_segmentation after build_customer_segmentation. The rows of
\* equal total_spent are numbered in the order of their customer_id. With no
\* row in dim_date max_date is NULL, every WHEN of recency_score is false and
\* the ELSE gives 1.
CustomerSegmentationTable(d) ==
    LET cs == d["dim_customer"]
        days(c) == SetMax({x.full_date : x \in d["dim_date"]})
                       - c.last_order_date
        row_number(c) ==
            1 + Cardinality({x \in cs :
                    \/ x.total_spent < c.total_spent
                    \/ /\ x.total_spent = c.total_spent
                       /\ x.customer_id < c.customer_id})
        score(c) == [recency |-> IF d["dim_date"] = {} THEN 1
                                 ELSE RecencyScore(days(c)),
                     frequency |-> FrequencyScore(c.total_orders),
                     monetary |-> Ntile(row_number(c), Cardinality(cs), 5)]
    IN  {[customer_id |-> c.customer_id,
          recency_score |-> score(c).recency,
          frequency_score |-> score(c).frequency,
          monetary_score |-> score(c).monetary,
          rfm_segment |-> RfmSegment(score(c).recency, score(c).frequency,
                                     score(c).monetary)] : c \in cs}

\* at most this many customers in dim_customer
MaxCustomers == 11

\* the days of the orders in the warehouse contents: January 2021, June 2021,
\* March 2022, July 2022
OrderDays == {0, 150, 420, 540}

\* the days on which customer c of a warehouse content has orders: the
\* first two customers on the days of late[c], the others on the first day
OrderDaysOf(c, late) == IF c \in DOMAIN late THEN late[c] ELSE {0}

\* fact_sales, dim_date and dim_customer of n customers. Every customer is
\* of the cohort of January 2021 in dim_customer; the facts of the first two
\* customers are those of the days late gives them, which need not include
\* the cohort month (build_customer_dimension replaces a dim_customer row
\* also in a run that raises before build_sales_fact, and the facts of
\* earlier files stay in fact_sales).
WarehouseContent(n, late) ==
    LET facts == {[customer_id |-> c, order_id |-> 100 * c + (day \div 30),
                   date_id |-> day, sales_amount |-> 5]
                  : <<c, day>> \in {p \in (1..n) \X OrderDays :
                                       p[2] \in OrderDaysOf(p[1], late)}}
        of(c) == {f \in facts : f.customer_id = c}
    IN  [EmptyDb EXCEPT
            !["fact_sales"] = facts,
            !["dim_date"] =
                {[date_id |-> day, full_date |-> day, year |-> CalYear(day),
                  month |-> CalMonth(day)] : day \in {f.date_id : f \in facts}},
            !["dim_customer"] =
                {[customer_id |-> c, first_order_cohort_year |-> CalYear(0),
                  first_order_cohort_month |-> CalMonth(0),
                  last_order_date |->
                      SetMax({0} \cup {f.date_id : f \in of(c)}),
                  total_orders |-> Cardinality(of(c)) + (c % 4),
                  total_spent |-> 5 * Cardinality(of(c)) + (c \div 2)]
                 : c \in 1..n}]

WarehouseContents ==
    {WarehouseContent(p[1], p[2])
     : p \in {q \in (0..MaxCustomers) \X [{1, 2} -> SUBSET OrderDays] :
                 TRUE}}

AnalysisInit ==
    /\ pc = "analysis"
    /\ RunnerIdle
    /\ pipeline_runs = << >>
    /\ clock = 1
    /\ trace = << >>
    /\ db \in WarehouseContents
    /\ csv = {}

\* a business step wrote rows to its table t
AnalysisStep(t, rows) ==
    /\ pc = "analysis"
    /\ \A i \in DOMAIN trace : trace[i].table # t
    /\ db' = [db EXCEPT ![t] = rows]
    /\ trace' = Append(trace, [ev |-> "TRANSFORM", layer |-> "business",
                               table |-> t, info |-> ""])
    /\ UNCHANGED <<pc, pipeline_runs, clock, csv>>
    /\ UNCHANGED runnerVars

BuildCumulativeRetentionAnalysis ==
    AnalysisStep("cumulative_retention_analysis", CumulativeRetentionTable(db))

BuildCustomerSegmentation ==
    AnalysisStep("customer_segmentation", CustomerSegmentationTable(db))

AnalysisNext == BuildCumulativeRetentionAnalysis \/ BuildCustomerSegmentation

AnalysisSpec == AnalysisInit /\ [][AnalysisNext]_vars

----------------------------------------------------------------------------
(* Whole calls of the entry points, made one after another by one caller   *)
(* that keeps a MasterPipelineRunner and an open DataPipelineOrchestrator  *)

\* at most this many calls are made
MaxRuns == 3

\* text of the exception of a transformation that finds the store locked
LockedError == "database is locked"

\* value of a run_<layer>_pipeline call: the stores and the orchestrator
\* after it, the text of the exception that left it ("" when it returned)
LayerOutcome(d, o, e) == [db |-> d, orch |-> o, error |-> e]

\* run_<layer>_pipeline of layer l on orchestrator o, stores d and CSV file
\* file.  The constructor of a downstream executor attaches the upstream
\* store; with locked, the first transformation raises; get_warehouse_summary
\* raises on an empty fact_sales.
run_layer_pipeline(l, o, d, file, locked) ==
    LET conn == Attachment(l)[1]
        alias == Attachment(l)[2]
        attached == IF l = "staging" THEN o
                    ELSE [o EXCEPT !.attached[conn] = @ \cup {alias}]
        built == RunLayer(l, d, file)
    IN IF l # "staging" /\ o.databases[conn] = "closed"
       THEN LayerOutcome(d, o, ClosedError)
       ELSE IF l # "staging" /\ alias \in o.attached[conn]
       THEN LayerOutcome(d, o, AttachError(alias))
       ELSE IF locked
       THEN LayerOutcome(d, attached, LockedError)
       ELSE IF l = "warehouse" /\ built["fact_sales"] = {}
       THEN LayerOutcome(built, attached, SummaryError)
       ELSE LayerOutcome(built, attached, "")

\* the fields of a run_full_pipeline call between two layer blocks
RunState(d, o, res, e) == [db |-> d, orch |-> o, results |-> res, error |-> e]

\* the block of layer l in run_full_pipeline: nothing when an earlier block
\* raised or the layer is skipped, else the layer runs and results[key] is
\* assigned SUCCESS or FAILED
LayerBlock(l, st, skip, file, locked) ==
    IF st.error # "" \/ l \in skip THEN st
    ELSE LET r == run_layer_pipeline(l, st.orch, st.db, file, locked)
         IN RunState(r.db, r.orch,
                     [st.results EXCEPT ![ResultKey(l)] =
                         IF r.error = ""
                         THEN [status |-> "SUCCESS", error |-> "", summary |-> l]
                         ELSE [status |-> "FAILED", error |-> r.error,
                               summary |-> ""]],
                     r.error)

\* run_full_pipeline(csv_file_path, skip) as one call; the transformations
\* of layer locked (if any) find the store locked.  The orchestrator of the
\* call is a new one.
run_full_pipeline(d, res, skip, file, locked) ==
    LET s0 == RunState(d, NewOrchestrator, res, "")
        s1 == LayerBlock("staging", s0, skip, file, locked = "staging")
        s2 == LayerBlock("warehouse", s1, skip, file, locked = "warehouse")
    IN LayerBlock("business", s2, skip, file, locked = "business")

\* index in orchs of the orchestrator the caller keeps open
CallerOrchestrator == 1

\* a constructed runner (no results), a constructed orchestrator, the stores
\* empty or as an earlier process left them
CallsInit ==
    /\ pc = "calls"
    /\ skip_layers = {}
    /\ layer = 0
    /\ step = 0
    /\ phase = 0
    /\ run_id = NoRunId
    /\ exc = ""
    /\ orchs = <<NewOrchestrator>>
    /\ self_orchestrator = 0
    /\ layer_orchestrator = 0
    /\ results = [k \in ResultKeys |-> NoResult]
    /\ ret = "none"
    /\ pipeline_runs = << >>
    /\ data_quality_checks = << >>
    /\ clock = 1
    /\ report = NoReport
    /\ trace = << >>
    /\ dirty = 0
    /\ db \in {EmptyDb, PriorDb}
    /\ csv = RunFile
    /\ exit_status = "none"

\* the variables no call of this part assigns
callsFrame ==
    <<pc, layer, step, phase, run_id, layer_orchestrator, pipeline_runs,
      data_quality_checks, clock, report, dirty, csv, exit_status>>

\* runner.run_full_pipeline(csv, skip) from entry to return: runner.results
\* is assigned in the layer blocks only, runner.orchestrator is the
\* orchestrator of this call, closed by the finally block
RunFullPipelineCall(skip, locked) ==
    /\ pc = "calls"
    /\ Len(trace) < MaxRuns
    /\ LET r == run_full_pipeline(db, results, skip, csv, locked)
       IN /\ skip_layers' = skip
          /\ db' = r.db
          /\ results' = r.results
          /\ ret' = IF r.error = "" THEN "True" ELSE "False"
          /\ orchs' = <<orchs[CallerOrchestrator], close_connections(r.orch)>>
          /\ self_orchestrator' = 2
          /\ trace' = Append(trace, [ev |-> "RUN", layer |-> "", table |-> "",
                                     info |-> r.error])
    /\ UNCHANGED exc
    /\ UNCHANGED callsFrame

\* run_<layer>_pipeline(orchestrator) called by the caller with the
\* orchestrator it keeps; the exception that leaves the call is remembered
LayerPipelineCall(l) ==
    /\ pc = "calls"
    /\ Len(trace) < MaxRuns
    /\ LET r == run_layer_pipeline(l, orchs[CallerOrchestrator], db, csv, FALSE)
       IN /\ db' = r.db
          /\ orchs' = [orchs EXCEPT ![CallerOrchestrator] = r.orch]
          /\ exc' = r.error
          /\ trace' = Append(trace, [ev |-> "LAYER", layer |-> l, table |-> "",
                                     info |-> r.error])
    /\ UNCHANGED <<skip_layers, results, ret, self_orchestrator>>
    /\ UNCHANGED callsFrame

RunFullPipelineAgain ==
    \E skip \in SUBSET LayerNames : \E locked \in LayerNames \cup {"none"} :
        RunFullPipelineCall(skip, locked)

RunWarehousePipelineCall == LayerPipelineCall("warehouse")

RunBusinessAnalysisPipelineCall == LayerPipelineCall("business")

CallsNext ==
    \/ RunFullPipelineAgain
    \/ RunWarehousePipelineCall
    \/ RunBusinessAnalysisPipelineCall

CallsSpec == CallsInit /\ [][CallsNext]_vars

----------------------------------------------------------------------------
(* Properties *)

LayerIndex(l) == CHOOSE i \in DOMAIN LayerOrder : LayerOrder[i] = l

\* run_<layer>_pipeline was called for layer l
LayerStarted(l) ==
    \E i \in DOMAIN trace : trace[i].ev = "LAYER" /\ trace[i].layer = l

\* an exception left run_<layer>_pipeline of layer l
LayerRaised(l) ==
    \E i \in DOMAIN trace :
        trace[i].ev \in {"FAILED", "RAISED"} /\ trace[i].layer = l

Ended == pc \in {"finally", "returned"}

\* the rows of a ledger table that belong to step table t, in order
RECURSIVE SelectRows(_, _)
SelectRows(rows, t) ==
    IF rows = << >> THEN << >>
    ELSE IF Head(rows).table_name = t
         THEN <<Head(rows)>> \o SelectRows(Tail(rows), t)
         ELSE SelectRows(Tail(rows), t)

\* C1: two-phase run record. A pipeline_runs row is in status STARTED only
\* while its step function is running under that run_id: once the step
\* function has returned or raised, the row of the run_id its STARTED call
\* returned is SUCCESS or FAILED.
C1_TwoPhaseRunRecord ==
    \A i \in DOMAIN pipeline_runs :
        pipeline_runs[i].status = "STARTED"
            => /\ pc \in {"transform", "phases"}
               /\ run_id = pipeline_runs[i].run_id

\* the transformation of the current step has just raised
StepRaised ==
    /\ pc = "layer_raised"
    /\ trace # << >>
    /\ trace[Len(trace)].ev = "FAILED"

\* C2: when a transformation step raises, the ledger row of that step's run
\* is FAILED with the exception text, which is not empty, as error_message,
\* and the exception leaves the step.
C2_StepFailureRecorded ==
    StepRaised =>
        /\ exc = trace[Len(trace)].info
        /\ exc # ""
        /\ \E i \in DOMAIN pipeline_runs :
              /\ pipeline_runs[i].layer = LayerTag(CurLayer)
              /\ pipeline_runs[i].table_name = CurStep.table
              /\ pipeline_runs[i].status = "FAILED"
              /\ pipeline_runs[i].error_message = exc

\* C3: guaranteed release. When run_full_pipeline has returned, every handle
\* of every orchestrator constructed during the call is closed.
C3_GuaranteedRelease ==
    pc = "returned" =>
        \A i \in DOMAIN orchs :
            \A d \in DbNames : orchs[i].databases[d] = "closed"

\* no trace of a layer after layer number i: not started, no result, no
\* pipeline_runs row
NothingAfter(i) ==
    \A j \in DOMAIN LayerOrder :
        j > i =>
            /\ ~LayerStarted(LayerOrder[j])
            /\ results[ResultKey(LayerOrder[j])].status = "ABSENT"
            /\ \A k \in DOMAIN pipeline_runs :
                  pipeline_runs[k].layer # LayerTag(LayerOrder[j])

\* C4: fail-fast. The exception of a layer is recorded as that layer's
\* FAILED result with its text and run_full_pipeline goes to its end with
\* False; a layer that raised is followed by no later layer: none is started,
\* none has a result, none has a pipeline_runs row.
C4_FailFast ==
    /\ [][pc = "layer_raised" =>
             /\ results'[ResultKey(CurLayer)].status = "FAILED"
             /\ results'[ResultKey(CurLayer)].error = exc
             /\ exc # ""
             /\ pc' = "finally"
             /\ ret' = "False"]_vars
    /\ [](\A i \in DOMAIN LayerOrder :
             (\/ LayerRaised(LayerOrder[i])
              \/ results[ResultKey(LayerOrder[i])].status = "FAILED")
                 => NothingAfter(i))

\* the warehouse layer failed in a step, the business layer was asked for
C4_Witness ==
    /\ pc = "returned"
    /\ "business" \notin skip_layers
    /\ results["layer2"].status = "FAILED"
    /\ results["layer2"].error \in StepErrors
    /\ results["layer3"].status = "ABSENT"

\* C5: layer order and skipping. Layers are started in the order staging,
\* warehouse, business; a layer in skip_layers is never started; when the run
\* has ended, every layer not in skip_layers was started unless an earlier
\* layer raised.
C5_LayerOrderAndSkipping ==
    /\ \A i, j \in DOMAIN trace :
          (i < j /\ trace[i].ev = "LAYER" /\ trace[j].ev = "LAYER")
              => LayerIndex(trace[i].layer) < LayerIndex(trace[j].layer)
    /\ \A l \in skip_layers : ~LayerStarted(l)
    /\ Ended =>
          \A l \in LayerNames \ skip_layers :
              \/ LayerStarted(l)
              \/ \E e \in LayerNames :
                    LayerIndex(e) < LayerIndex(l) /\ LayerRaised(e)

\* business is skipped, staging and warehouse ran
C5_Witness ==
    /\ pc = "returned"
    /\ skip_layers = {"business"}
    /\ LayerStarted("staging")
    /\ LayerStarted("warehouse")
    /\ ret = "True"

\* C6: run outcome. run_full_pipeline ends with True if and only if every
\* layer not in skip_layers completed (has a SUCCESS result and did not
\* raise), and with False otherwise.
C6_RunOutcome ==
    IF Ended
    THEN /\ ret \in {"True", "False"}
         /\ ret = "True" <=>
               \A l \in LayerNames \ skip_layers :
                   /\ results[ResultKey(l)].status = "SUCCESS"
                   /\ ~LayerRaised(l)
    ELSE ret = "none"

\* a run of all three layers ended True
C6_Witness ==
    /\ pc = "returned"
    /\ skip_layers = {}
    /\ ret = "True"
    /\ \A k \in ResultKeys : results[k].status = "SUCCESS"

\* C7: quality-check non-fatality at step level. A check whose predicate is
\* false leaves a FAILED row, and once its step has ended the run of that
\* step has status SUCCESS in the ledger.
C7_FailedCheckStepSucceeds ==
    \A i \in DOMAIN data_quality_checks :
        (/\ data_quality_checks[i].status = "FAILED"
         /\ data_quality_checks[i].actual_value # "ERROR"
         /\ run_id # data_quality_checks[i].run_id)
            => \E k \in DOMAIN pipeline_runs :
                  /\ pipeline_runs[k].run_id = data_quality_checks[i].run_id
                  /\ pipeline_runs[k].status = "SUCCESS"

\* the checks of step table t recorded their rows as outcomes q says
RowsMatch(t, cs, q) ==
    LET rows == SelectRows(data_quality_checks, t) IN
    /\ Len(rows) = Len(cs)
    /\ \A k \in DOMAIN cs :
          /\ rows[k].check_name = cs[k].name
          /\ q[k] \in CheckErrors =>
                /\ rows[k].status = "FAILED"
                /\ rows[k].actual_value = "ERROR"
                /\ rows[k].error_details = q[k]

StepOf(l, t) == CHOOSE s \in {Steps(l)[n] : n \in DOMAIN Steps(l)} : s.table = t

\* C8: check-error containment. Every check whose predicate raised recorded
\* one row with status FAILED, actual_value "ERROR" and the exception text in
\* error_details, and the exception of a check is never the exception that
\* leaves a step or a layer.
C8_CheckErrorContainment ==
    /\ \A i \in DOMAIN trace :
          trace[i].ev = "CHECKS" =>
              RowsMatch(trace[i].table,
                        StepOf(trace[i].layer, trace[i].table).checks,
                        trace[i].info)
    /\ exc \notin CheckErrors
    /\ \A k \in ResultKeys : results[k].error \notin CheckErrors
    /\ \A i \in DOMAIN trace :
          trace[i].ev \in {"FAILED", "RAISED"} => trace[i].info \notin CheckErrors

\* every check of dim_customer raised, the step went on and the run ended True
C8_Witness ==
    /\ pc = "returned"
    /\ ret = "True"
    /\ \E i \in DOMAIN trace :
          /\ trace[i].ev = "CHECKS"
          /\ trace[i].table = "dim_customer"
          /\ \A k \in DOMAIN trace[i].info : trace[i].info[k] \in CheckErrors
    /\ Len(SelectRows(data_quality_checks, "dim_customer")) = 3
    /\ \A i \in DOMAIN data_quality_checks :
          data_quality_checks[i].table_name = "dim_customer"
              => data_quality_checks[i].actual_value = "ERROR"

\* C9: no quality gating across layers. Whatever the checks recorded, the
\* layers that were started and the return value are those the skip set and
\* the exceptions of transformations, summaries and constructors determine:
\* a layer is started if and only if it is not skipped and no earlier layer
\* raised such an exception, and the run returns True if and only if none was
\* raised.
C9_NoQualityGating ==
    Ended =>
        /\ \A l \in LayerNames :
              LayerStarted(l) <=>
                  /\ l \notin skip_layers
                  /\ \A e \in LayerNames :
                        LayerIndex(e) < LayerIndex(l) => ~LayerRaised(e)
        /\ ret = "True" <=> \A l \in LayerNames : ~LayerRaised(l)

\* every check of the staging layer is FAILED, the warehouse and business
\* layers ran and the run returned True
C9_Witness ==
    /\ pc = "returned"
    /\ ret = "True"
    /\ skip_layers = {}
    /\ LayerStarted("warehouse")
    /\ LayerStarted("business")
    /\ Len(SelectRows(data_quality_checks, "stg_sales_raw")) = 5
    /\ Len(SelectRows(data_quality_checks, "stg_sales_cleaned")) = 2
    /\ \A i \in DOMAIN data_quality_checks :
          data_quality_checks[i].run_id.layer = "STAGING"
              => data_quality_checks[i].status = "FAILED"

\* C10: report after a run. A report that get_pipeline_report returns after
\* run_full_pipeline has returned has pipeline_status and
\* data_quality_summary filled from the ledger, business_metrics filled when
\* the business layer succeeded, and no report_error.
C10_ReportAfterRun ==
    (pc = "returned" /\ report.returned /\ report.error = "") =>
        /\ report.report_error = ""
        /\ report.pipeline_status =
               [set |-> TRUE, value |-> get_pipeline_status(pipeline_runs)]
        /\ report.data_quality_summary =
               [set |-> TRUE, value |-> get_data_quality_summary(data_quality_checks)]
        /\ results["layer3"].status = "SUCCESS" => report.business_metrics.set

\* C11: exit status. main(), run without --report-only, ends with status 0
\* if and only if run_full_pipeline returned True, and with a non-zero status
\* if and only if it returned False.
C11_ExitStatus ==
    exit_status # "none" =>
        /\ exit_status = "0" <=> ret = "True"
        /\ exit_status # "0" <=> ret = "False"

\* main() has ended after a run in which all three layers succeeded
C11_Witness ==
    /\ exit_status # "none"
    /\ skip_layers = {}
    /\ ret = "True"
    /\ \A k \in ResultKeys : results[k].status = "SUCCESS"

\* C12: handles usable after a successful run. After run_full_pipeline has
\* returned True with the business layer executed, the business handle of
\* runner.orchestrator is open, so that it can be queried.
C12_HandlesUsableAfterRun ==
    (/\ pc = "returned"
     /\ ret = "True"
     /\ results["layer3"].status = "SUCCESS")
        => orchs[self_orchestrator].databases["business"] = "open"

\* the calls made so far with a status of statuses S
CallsWith(S) == {k \in DOMAIN trace : trace[k].ev \in S}

\* C13: run lifecycle. After any sequence of log_pipeline_run calls, every
\* run_id of pipeline_runs has one row, created by one STARTED call; the
\* number of rows is the number of STARTED calls (a SUCCESS or FAILED call
\* inserts nothing); a row has taken at most one terminal update, and a row
\* whose run_id no terminal call named is as its STARTED call wrote it.
C13_RunLifecycle ==
    pc = "ledger" =>
        /\ \A i, j \in DOMAIN pipeline_runs :
              pipeline_runs[i].run_id = pipeline_runs[j].run_id => i = j
        /\ Len(pipeline_runs) = Cardinality(CallsWith({"STARTED"}))
        /\ \A i \in DOMAIN pipeline_runs :
              LET rid == pipeline_runs[i].run_id
                  made == {k \in CallsWith({"STARTED"}) : trace[k].info = rid}
                  ended == {k \in CallsWith({"SUCCESS", "FAILED"}) : trace[k].info = rid}
              IN /\ Cardinality(made) = 1
                 /\ Cardinality(ended) <= 1
                 /\ ended = {} =>
                       /\ pipeline_runs[i].status = "STARTED"
                       /\ pipeline_runs[i].row_count = "NULL"
                       /\ pipeline_runs[i].error_message = "NULL"

\* a STARTED call for a table was followed by a terminal call for the same
\* table, whose run_id no row has
C13_Witness ==
    /\ pc = "ledger"
    /\ \E i, j \in DOMAIN trace :
          /\ i < j
          /\ trace[i].ev = "STARTED"
          /\ trace[j].ev \in {"SUCCESS", "FAILED"}
          /\ trace[i].table = trace[j].table
          /\ \A k \in DOMAIN pipeline_runs :
                pipeline_runs[k].run_id # trace[j].info
    /\ Len(pipeline_runs) >= 2

\* C14: check-to-run association. The run_id of every data_quality_checks
\* row is the run_id of exactly one pipeline_runs row, and that row is the
\* run of the step that built the checked table: same table_name.
C14_CheckToRunAssociation ==
    \A i \in DOMAIN data_quality_checks :
        LET runs == {k \in DOMAIN pipeline_runs :
                        pipeline_runs[k].run_id = data_quality_checks[i].run_id}
        IN /\ Cardinality(runs) = 1
           /\ \A k \in runs :
                 pipeline_runs[k].table_name = data_quality_checks[i].table_name

\* the checks of stg_sales_raw and of cumulative_retention_analysis (which
\* run before the SUCCESS call of their step) were recorded
C14_Witness ==
    /\ Len(SelectRows(data_quality_checks, "stg_sales_raw")) = 5
    /\ Len(SelectRows(data_quality_checks, "cumulative_retention_analysis")) = 1
    /\ Len(SelectRows(pipeline_runs, "cumulative_retention_analysis")) = 1

\* C15: shared Resource Manager. When run_full_pipeline has returned, every
\* layer that was executed worked on one and the same orchestrator, and that
\* orchestrator is runner.orchestrator.
C15_SharedResourceManager ==
    pc = "returned" =>
        \A i \in DOMAIN trace :
            trace[i].ev = "LAYER" => trace[i].info = self_orchestrator

\* the output tables of layer l
LayerTables(l) == {Steps(l)[n].table : n \in DOMAIN Steps(l)}

\* layer runs number i and i + 1 are runs of the same layer on the same file
SameLayerTwice(i) ==
    /\ i + 1 \in DOMAIN trace
    /\ trace[i].layer = trace[i + 1].layer
    /\ trace[i].info.file = trace[i + 1].info.file

\* C16: idempotent rebuild. When a layer is run twice in succession on
\* unchanged upstream data, every output table of the layer holds after the
\* second run the rows it held after the first: the same rows, the same
\* number of rows.
C16_IdempotentRebuild ==
    pc = "rebuild" =>
        \A i \in DOMAIN trace :
            SameLayerTwice(i) =>
                \A t \in LayerTables(trace[i].layer) :
                    /\ trace[i + 1].info.after[t] = trace[i].info.after[t]
                    /\ Cardinality(trace[i + 1].info.after[t])
                           = Cardinality(trace[i].info.after[t])

\* the staging layer loaded a file with rows into stores that held other
\* rows, and was run again on the same file
C16_Witness ==
    /\ pc = "rebuild"
    /\ \E i \in DOMAIN trace :
          /\ SameLayerTwice(i)
          /\ trace[i].layer = "staging"
          /\ trace[i].info.after["stg_sales_cleaned"] # {}
          /\ trace[i].info.before["stg_sales_cleaned"]
                 # trace[i].info.after["stg_sales_cleaned"]

\* the last layer run was a run of the warehouse layer
WarehouseRanLast ==
    /\ pc = "rebuild"
    /\ trace # << >>
    /\ trace[Len(trace)].layer = "warehouse"

\* C17: rebuild depends only on upstream state. After a run of the warehouse
\* layer every key of dim_date, dim_customer, dim_order and fact_sales comes
\* from a VALID row of the current staging.stg_sales_cleaned.
C17_RebuildFromUpstreamOnly ==
    WarehouseRanLast =>
        /\ \A x \in db["dim_date"] :
              \E r \in ValidRows(db) : r.date_parsed = x.date_id
        /\ \A x \in db["dim_customer"] :
              \E r \in ValidRows(db) : r.customer_id = x.customer_id
        /\ \A x \in db["dim_order"] :
              \E r \in ValidRows(db) : r.order_id = x.order_id
        /\ \A x \in db["fact_sales"] :
              \E r \in ValidRows(db) :
                  /\ r.customer_id = x.customer_id
                  /\ r.order_id = x.order_id
                  /\ r.date_parsed = x.date_id

\* the rows of snapshot table snap whose snapshot_date is sd
SnapshotOf(snap, sd) == {r \in snap : r.snapshot_date = sd}

\* C18: the lifecycle snapshot is a point-in-time upsert. A run of the
\* business layer rewrites the customer_lifecycle_snapshot rows of the
\* latest date of warehouse.dim_date only: the rows of every other date are
\* those the table held before, and the rows of that date are one set, one
\* row per lifecycle stage, however often the layer ran for that date.
C18_SnapshotUpsert ==
    pc = "rebuild" =>
        \A i \in DOMAIN trace :
            trace[i].layer = "business" =>
                LET before == trace[i].info.before
                    was == before["customer_lifecycle_snapshot"]
                    is == trace[i].info.after["customer_lifecycle_snapshot"]
                IN IF NoSnapshotDate(before) THEN is = was
                   ELSE /\ is \ SnapshotOf(is, SnapshotDate(before))
                              = was \ SnapshotOf(was, SnapshotDate(before))
                        /\ \A r, q \in SnapshotOf(is, SnapshotDate(before)) :
                              r.lifecycle_stage = q.lifecycle_stage => r = q
                        /\ \A c \in before["dim_customer"] :
                              \E r \in SnapshotOf(is, SnapshotDate(before)) :
                                  r.lifecycle_stage = LifecycleStage(c)

\* the business layer ran for a date when the table held the rows of an
\* earlier date: the table holds the rows of both dates
C18_Witness ==
    /\ pc = "rebuild"
    /\ \E i \in DOMAIN trace :
          /\ trace[i].layer = "business"
          /\ ~NoSnapshotDate(trace[i].info.before)
          /\ \E r \in trace[i].info.after["customer_lifecycle_snapshot"] :
                r.snapshot_date # SnapshotDate(trace[i].info.before)
          /\ SnapshotOf(trace[i].info.after["customer_lifecycle_snapshot"],
                        SnapshotDate(trace[i].info.before)) # {}

\* the stores when run_full_pipeline was entered
StoresAtEntry == trace[1].info

SameStep(i, j) ==
    /\ trace[i].table # ""
    /\ trace[i].table = trace[j].table

\* C20: uniform per-step protocol. In every step the events come in the
\* order STARTED, transformation, SUCCESS, quality checks, commit: no step
\* records its checks or commits before it logs SUCCESS, and a step that
\* logged SUCCESS and returned has committed.
C20_UniformStepProtocol ==
    /\ \A i, j \in DOMAIN trace :
          (i < j /\ SameStep(i, j) /\ trace[j].ev = "SUCCESS")
              => trace[i].ev \in {"STARTED", "TRANSFORM"}
    /\ \A i, j \in DOMAIN trace :
          (/\ i < j
           /\ trace[i].ev = "SUCCESS"
           /\ trace[j].ev = "STARTED"
           /\ trace[i].layer = trace[j].layer)
              => \E k \in DOMAIN trace :
                    /\ i < k
                    /\ SameStep(i, k)
                    /\ trace[k].ev = "COMMIT"

\* the index of step table t in the call order of layer l
StepIndex(l, t) == CHOOSE n \in DOMAIN Steps(l) : Steps(l)[n].table = t

\* the events of positions i+1 .. j-1 of the trace
EventsBetween(i, j) == [n \in 1..(j - i - 1) |-> trace[i + n].ev]

\* the events a step function that returns leaves after its STARTED event:
\* the transformation and the statements of its protocol, or the early return
\* of build_customer_lifecycle_snapshot
StepRanThrough(s, evs) ==
    \/ evs = <<"TRANSFORM">> \o s.protocol
    \/ s.table = "customer_lifecycle_snapshot" /\ evs = <<"SUCCESS">>

\* C21: fixed step order within a layer. In one layer run the steps are
\* started in the call order of the layer: the first STARTED row of a layer is
\* that of its first step, and the STARTED row of any later step is inserted
\* only after the step before it in that order has run through to its return
\* and every check that step evaluated has its row in data_quality_checks.
C21_FixedStepOrder ==
    \A j \in DOMAIN trace :
        trace[j].ev = "STARTED" =>
            LET l == trace[j].layer
                k == StepIndex(l, trace[j].table)
            IN  IF k = 1
                THEN trace[j - 1].ev = "LAYER" /\ trace[j - 1].layer = l
                ELSE LET p == Steps(l)[k - 1] IN
                     \E i \in 1..(j - 1) :
                        /\ trace[i].ev = "STARTED"
                        /\ trace[i].layer = l
                        /\ trace[i].table = p.table
                        /\ \A n \in (i + 1)..(j - 1) :
                              trace[n].table = p.table /\ trace[n].layer = l
                        /\ StepRanThrough(p, EventsBetween(i, j))
                        /\ "CHECKS" \in {p.protocol[n] : n \in DOMAIN p.protocol}
                           /\ EventsBetween(i, j) # <<"SUCCESS">>
                              => Len(SelectRows(data_quality_checks, p.table))
                                    = Len(p.checks)

\* all nine steps of the business layer were started, the last one after
\* campaign_targets recorded its check
C21_Witness ==
    /\ \E j \in DOMAIN trace :
          /\ trace[j].ev = "STARTED"
          /\ trace[j].table = "business_insights"
    /\ Len(SelectRows(data_quality_checks, "campaign_targets")) = 1
    /\ Len(SelectRows(data_quality_checks, "stg_sales_raw")) = 5

\* the call of a check method that CheckerSpec made
CheckCall == trace[1]

\* a check method was called on a column its table has
CalledOnColumn(method) ==
    /\ pc = "checked"
    /\ CheckCall.ev = method
    /\ CheckCall.info.column \in Columns(CheckCall.table)

\* the rows of the table the check was called on, and those of them whose
\* checked column is NULL
CheckedRows == db[CheckCall.table]

NullRows == {r \in CheckedRows : r[CheckCall.info.column] = Null}

\* C22: check_null_percentage returns PASSED if and only if
\* null_count * 100 / total_rows <= max_null_pct, and on a table with 0 rows
\* (null percentage 0) it records PASSED for every max_null_pct >= 0.
C22_NullPercentage ==
    CalledOnColumn("check_null_percentage") =>
        /\ data_quality_checks[1].status = "PASSED" <=>
              \/ CheckedRows = {}
              \/ Cardinality(NullRows) * 100
                    <= CheckCall.info.args[1] * Cardinality(CheckedRows)
        /\ CheckCall.info.ret <=> data_quality_checks[1].status = "PASSED"

\* the number YYYYMMDD of the date an ISO text writes
DateNumber(s) ==
    (s[1] - 48) * 10000000 + (s[2] - 48) * 1000000 + (s[3] - 48) * 100000
    + (s[4] - 48) * 10000 + (s[6] - 48) * 1000 + (s[7] - 48) * 100
    + (s[9] - 48) * 10 + (s[10] - 48)

\* the non-null values of the checked column
CheckedValues == {r[CheckCall.info.column] : r \in CheckedRows} \ {Null}

\* C23: check_date_range returns PASSED if and only if the smallest and the
\* largest non-null date of the column lie within [min_date, max_date], both
\* ends included, and the rows with a null date do not change the verdict.
C23_DateRange ==
    CalledOnColumn("check_date_range") /\ CheckedValues # {} =>
        /\ CheckCall.info.ret <=>
              \A v \in CheckedValues :
                  /\ DateNumber(CheckCall.info.args[1]) <= DateNumber(v)
                  /\ DateNumber(v) <= DateNumber(CheckCall.info.args[2])
        /\ data_quality_checks[1].status = "PASSED" <=> CheckCall.info.ret
        /\ CheckCall.info.ret <=>
              DateRangeOutcome(
                  [db EXCEPT ![CheckCall.table] = CheckedRows \ NullRows],
                  CheckCall.table, CheckCall.info.column,
                  CheckCall.info.args[1], CheckCall.info.args[2]) = "PASSED"

\* the check passed on a table that holds both ends of the range, a date
\* between them and a row with a null date
C23_Witness ==
    /\ CalledOnColumn("check_date_range")
    /\ CheckedValues = {RangeMin, Iso(2021, 6, 30), RangeMax}
    /\ NullRows # {}
    /\ CheckCall.info.ret

\* C24: end-to-end scenario. On the file of 1,200 rows from 2021-01-01 to
\* 2021-06-30 with 50 customers, positive sales and no null identifier, every
\* check the staging steps record has status PASSED.
C24_ScenarioChecksPass ==
    /\ pc = "checked"
    /\ db = ScenarioStores
    /\ CheckCall.ev \in {"_run_raw_data_quality_checks",
                         "_run_cleaned_data_quality_checks"}
    => \A i \in DOMAIN data_quality_checks :
          data_quality_checks[i].status = "PASSED"

\* C29: check_date_range on a table with no non-null value in the date
\* column (an empty table, or every date null) returns False without raising
\* and records exactly one row, with status FAILED and actual_value "ERROR".
C29_DateRangeNoDates ==
    CalledOnColumn("check_date_range") /\ CheckedValues = {} =>
        /\ CheckCall.info.ret = FALSE
        /\ Len(data_quality_checks) = 1
        /\ data_quality_checks[1].status = "FAILED"
        /\ data_quality_checks[1].actual_value = "ERROR"
        /\ data_quality_checks[1].check_name = "date_parsed_range_check"

\* the check returned on a table whose only row has a null date
C29_Witness ==
    /\ CalledOnColumn("check_date_range")
    /\ CheckedRows # {}
    /\ CheckedValues = {}
    /\ Len(data_quality_checks) = 1

CheckMethods ==
    {"check_row_count", "check_null_percentage", "check_unique_count",
     "check_date_range"}

\* C30: one ledger row per check call. A call of check_row_count,
\* check_null_percentage, check_unique_count or check_date_range inserts
\* exactly one data_quality_checks row, whether its predicate passed, failed
\* or raised, and returns True if and only if that row is PASSED.
C30_OneRowPerCheckCall ==
    pc = "checked" /\ CheckCall.ev \in CheckMethods =>
        /\ Len(data_quality_checks) = 1
        /\ data_quality_checks[1].table_name = CheckCall.table
        /\ data_quality_checks[1].run_id = CheckerRunId
        /\ CheckCall.info.ret <=> data_quality_checks[1].status = "PASSED"

\* check_row_count found fewer rows than min_rows on a table that has rows:
\* one FAILED row, False returned
C30_Witness ==
    /\ pc = "checked"
    /\ CheckCall.ev = "check_row_count"
    /\ CheckCall.table = "stg_sales_raw"
    /\ db["stg_sales_raw"] # {}
    /\ Len(data_quality_checks) = 1
    /\ data_quality_checks[1].status = "FAILED"
    /\ data_quality_checks[1].actual_value # "ERROR"
    /\ CheckCall.info.ret = FALSE

\* step table t was written in this behaviour
Built(t) == \E i \in DOMAIN trace : trace[i].ev = "TRANSFORM" /\ trace[i].table = t

\* the rate of cohort k for the window of w months (k has a row for w)
RateOf(k, w) ==
    (CHOOSE r \in db["cumulative_retention_analysis"] :
        r.cohort_month = k /\ r.retention_window_months = w
    ).cumulative_retention_rate

\* the cohorts that have a row for each of the three windows
FullCohorts ==
    {k \in {r.cohort_month : r \in db["cumulative_retention_analysis"]} :
        \A w \in RetentionWindows :
            \E r \in db["cumulative_retention_analysis"] :
                r.cohort_month = k /\ r.retention_window_months = w}

\* C25: retention monotonicity. For every cohort with rows for the three
\* windows, the 12-month cumulative_retention_rate is at most the 3-month
\* rate and the 18-month rate is at most the 12-month rate, whatever the
\* warehouse holds.
C25_RetentionMonotone ==
    Built("cumulative_retention_analysis") =>
        \A k \in FullCohorts :
            /\ RateOf(k, 12) <= RateOf(k, 3)
            /\ RateOf(k, 18) <= RateOf(k, 12)

SegmentNames ==
    {"Champions", "Loyal Customers", "New Customers", "At Risk",
     "Cannot Lose Them", "Lost Customers", "Others"}

\* C26: RFM score bounds. Every row of customer_segmentation has
\* recency_score, frequency_score and monetary_score in 1..5 and an
\* rfm_segment that is one of the seven segment names.
C26_RfmScoreBounds ==
    Built("customer_segmentation") =>
        \A r \in db["customer_segmentation"] :
            /\ r.recency_score \in 1..5
            /\ r.frequency_score \in 1..5
            /\ r.monetary_score \in 1..5
            /\ r.rfm_segment \in SegmentNames

\* the segmentation of eleven customers was written: the five monetary
\* scores and recency scores 1 and 5 all occur
C26_Witness ==
    /\ Built("customer_segmentation")
    /\ Cardinality(db["customer_segmentation"]) = 11
    /\ {r.monetary_score : r \in db["customer_segmentation"]} = 1..5
    /\ {1, 5} \subseteq {r.recency_score : r \in db["customer_segmentation"]}
    /\ Cardinality({r.rfm_segment : r \in db["customer_segmentation"]}) >= 3

\* C27: whenever run_full_pipeline has returned True, every entry of
\* runner.results has status SUCCESS, also when the runner was used before
\* for a run that failed in a layer the later call skips.
C27_ResultsOfCurrentRun ==
    ret = "True" =>
        \A k \in ResultKeys : results[k].status \in {"ABSENT", "SUCCESS"}

\* call i and the call after it run layer l on the caller's orchestrator
LayerTwice(i, l) ==
    /\ i + 1 \in DOMAIN trace
    /\ trace[i].ev = "LAYER" /\ trace[i].layer = l
    /\ trace[i + 1].ev = "LAYER" /\ trace[i + 1].layer = l

\* C28: when run_warehouse_pipeline (or run_business_analysis_pipeline) is
\* called twice in succession with the same, still open orchestrator and the
\* first call returns, the second call returns too: the attachment made by
\* the second executor does not fail the layer.
C28_RerunOnSameOrchestrator ==
    pc = "calls" =>
        \A i \in DOMAIN trace : \A l \in {"warehouse", "business"} :
            (LayerTwice(i, l) /\ trace[i].info = "")
                => trace[i + 1].info = ""

====
